---- MODULE Spec2Model ----
(***************************************************************************)
(* A model of the Pong reducer (src/unnamed/part_000, the final variant    *)
(* of the game; src/pong.ts and src/unnamed/part_001 are earlier variants  *)
(* of the same reducer).                                                    *)
(*                                                                          *)
(* Numbers.  The program computes in IEEE doubles; the model computes in   *)
(* fixed point.  A position is an integer number of hundredths of a pixel  *)
(* (Unit per pixel), a vector magnitude an integer number of hundredths of *)
(* a pixel per tick, an angle an integer number of hundredths of a radian, *)
(* a cosine or sine an integer number of ten-thousandths.  A uniform draw  *)
(* psudo_randm(seed) is kept as its exact integer numerator r, the value   *)
(* being r / (2^31 - 1).                                                   *)
(*                                                                          *)
(* A nullable field (heuristic_ball, activated_power_up) is a sequence:    *)
(* <<>> for null, <<v>> for the object v.                                  *)
(***************************************************************************)
EXTENDS Integers, Sequences, FiniteSets, TLC

VARIABLES
    s,        \* the State threaded through scan(reduceState, initialState)
    e,        \* the event reduceState processed last ([type |-> "none"] before the first)
    elapsed   \* the next value of interval(5), carried by the next Tick

vars == <<s, e, elapsed>>

(***************************************************************************)
(* Fixed point                                                             *)
(***************************************************************************)
\* hundredths of a pixel per pixel: the resolution of every position
Unit == 100

px(n) == n * Unit

Abs(n) == IF n < 0 THEN -n ELSE n

Max(a, b) == IF a >= b THEN a ELSE b

Min(a, b) == IF a <= b THEN a ELSE b

\* division rounding toward zero, as the nearest fixed-point value of a / b (b > 0)
TDiv(a, b) == IF a >= 0 THEN a \div b ELSE -((-a) \div b)

\* Math.cos on [0, 1.57] by its Taylor polynomial; a in centiradians, result * 10000
CosTaylor(a) ==
    LET x2 == a * a
        x4 == x2 * x2
        x6 == (x4 \div 10000) * x2
    IN  10000 - (x2 \div 2) + (x4 \div 240000) - (x6 \div 7200000)

\* Math.sin on [0, 1.57] by its Taylor polynomial; a in centiradians, result * 10000
SinTaylor(a) ==
    LET x2 == a * a
        a3 == a * x2
        a5 == ((a3 \div 100) * x2) \div 10000
        a7 == ((a5 \div 100) * x2) \div 100
    IN  (100 * a) - (a3 \div 600) + (a5 \div 120) - (a7 \div 5040)

\* an angle brought into (-3.14, 3.14] (2 pi is 6.28 in centiradians)
Reduce(a) ==
    LET m == a % 628
    IN  IF m > 314 THEN m - 628 ELSE m

\* Math.cos(a), a in centiradians, result * 10000
Cos(a) ==
    LET r == Abs(Reduce(a))
    IN  IF r > 157 THEN -CosTaylor(314 - r) ELSE CosTaylor(r)

\* Math.sin(a), a in centiradians, result * 10000
Sin(a) ==
    LET r  == Reduce(a)
        m  == Abs(r)
        v  == IF m > 157 THEN SinTaylor(314 - m) ELSE SinTaylor(m)
    IN  IF r < 0 THEN -v ELSE v

RECURSIVE ISqrtStep(_, _, _)
\* the largest k in lo .. hi with k * k <= n, by bisection
ISqrtStep(n, lo, hi) ==
    IF hi - lo <= 1
    THEN IF hi * hi <= n THEN hi ELSE lo
    ELSE LET mid == (lo + hi) \div 2
         IN  IF mid * mid <= n THEN ISqrtStep(n, mid, hi) ELSE ISqrtStep(n, lo, mid - 1)

\* Math.sqrt on 0 .. 1000000, rounded down
ISqrt(n) == ISqrtStep(n, 0, 1000)

RECURSIVE BitLen(_)
\* the number of binary digits of r >= 1
BitLen(r) == IF r <= 1 THEN 1 ELSE 1 + BitLen(r \div 2)

RECURSIVE Pow2(_)
Pow2(n) == IF n = 0 THEN 1 ELSE 2 * Pow2(n - 1)

(***************************************************************************)
(* Types and constants                                                     *)
(***************************************************************************)
\* const enum power_up_type
none == 0

speed == 1

fast_ball == 2

return == 3

expand == 4

\* const enum Player_type
CONTROLLED_PLAYER == 0

AI == 1

\* const enum game_constants
MAX_X == 600

MAX_Y == 600

STARTING_PADDLE_SIZE == 80

STARTING_BALL_SIZE == 14

STARTING_PBALL_SIZE == 65

MAX_SCORE == 7

POWERUP_TIME == 600

MAX_RAND_NUM_GET == 111

\* the null of heuristic_ball and power_up_obj, and an object held in such a field
Null == <<>>

Some(v) == <<v>>

IsNull(o) == o = <<>>

Val(o) == o[1]

\* class active_power_up: the constructor
active_power_up(power_up_t, duration_left) ==
    [power_up_t |-> power_up_t, duration_left |-> duration_left]

\* active_power_up.tick, on the object o: the next value of the field holding it
active_power_up_tick_method(o) ==
    IF o.duration_left <= 0
    THEN Null
    ELSE Some(active_power_up(o.power_up_t, o.duration_left - 1))

\* class Vector: the constructor; magnitude in hundredths of a pixel per tick,
\* angle in centiradians, dx and dy in hundredths of a pixel per tick
Vector(magnitude, angle) ==
    [magnitude |-> magnitude,
     angle     |-> angle,
     dx        |-> TDiv(magnitude * Cos(angle), 10000),
     dy        |-> TDiv(magnitude * Sin(angle), 10000)]

\* Vector.x_reflect
x_reflect(v) == Vector(-v.magnitude, -v.angle)

\* Vector.y_reflect
y_reflect(v) == Vector(v.magnitude, -v.angle)

\* the x_reflect_paddle of the earlier reducer (src/pong.ts, Vector): a faulty
\* variant here, which C19 must tell apart
x_reflect_paddle_linear(v, strength) ==
    LET new_mag   == TDiv(v.magnitude * (strength + 60), 100)
        new_angle == v.angle + strength \div 2
    IN  Vector(-new_mag, -new_angle)

\* Vector.x_reflect_paddle; strength in hundredths:
\* new_mag = magnitude * (|strength| / 2 + 0.9), new_angle = strength
x_reflect_paddle(v, strength) ==
    LET new_mag   == TDiv(v.magnitude * (Abs(strength) + 180), 200)
        new_angle == strength
    IN  Vector(-new_mag, -new_angle)

initial_player_paddle_state ==
    [x |-> px(565), y |-> px(100), speed |-> 5, size |-> 1, direction |-> 0]

initial_ai_paddle_state ==
    [x |-> px(25), y |-> px(100), speed |-> 5, size |-> 1, direction |-> 0]

initial_player_state ==
    [paddle             |-> initial_player_paddle_state,
     power_up_holding   |-> fast_ball,
     activated_power_up |-> Null]

initial_ai_state ==
    [paddle             |-> initial_ai_paddle_state,
     y_target           |-> px(300),
     heuristic_ball     |-> Null,
     power_up_holding   |-> none,
     activated_power_up |-> Null]

initial_ball_State ==
    [x |-> px(200), y |-> px(198), speedX |-> -2, speedY |-> 3, size |-> 1,
     velocity |-> Vector(350, 100)]

initial_meta_state ==
    [difficulty         |-> 3,
     is_paused          |-> TRUE,
     has_started        |-> FALSE,
     power_up_activated |-> FALSE,
     has_ended          |-> FALSE,
     button_clicked     |-> 0,
     rand_seed          |-> 1,
     last_hit           |-> AI,
     score_has_updated  |-> FALSE]

initial_pb_state ==
    [y |-> px(200), x |-> px(400), velocity |-> Vector(40, 100),
     is_active |-> FALSE, size |-> 1, ms_left_visible |-> 0]

initialState ==
    [player_state  |-> initial_player_state,
     ai_paddle     |-> initial_ai_state,
     ball          |-> initial_ball_State,
     ai_score      |-> 0,
     player_score  |-> 0,
     meta_state    |-> initial_meta_state,
     power_up_ball |-> initial_pb_state]

(***************************************************************************)
(* Random numbers                                                          *)
(***************************************************************************)
\* psudo_randm(seed) = ((1103515245 * seed + 12345) % 2^31) / (2^31 - 1): the
\* numerator, computed without leaving 32 bits
\* (1103515245 = 16838 * 2^16 + 20077; exact for 0 <= seed <= 100000)
psudo_randm(seed) ==
    LET hi == ((16838 * seed) % 32768) * 65536
        lo == 20077 * seed + 12345
    IN  IF hi > 2147483647 - lo THEN hi - (2147483647 - lo) - 1 ELSE hi + lo

\* psudo_randm(seed) < 0.001, on the numerator (0.001 * (2^31 - 1) = 2147483.647)
below_1_in_1000(r) == r <= 2147483

\* Math.sqrt(-2.0 * Math.log(u)) * 100 for u = r / (2^31 - 1), r >= 1:
\* log2 r from the bit length and a linear mantissa, ln 2 = 0.693
sqrt_neg2_log(r) ==
    LET n     == BitLen(r) - 1
        m     == IF n >= 10 THEN r \div Pow2(n - 10) ELSE r * Pow2(10 - n)
        log2r == 1000 * n + ((m - 1024) * 1000) \div 1024
        v     == (1386 * Max(31000 - log2r, 0)) \div 1000
    IN  ISqrt(v * 10)

\* Math.cos(2.0 * Math.PI * v) * 10000 for v = r / (2^31 - 1)
cos_2pi(r) == Cos(r \div 3419560)

\* randn_bm: variance and mean in hundredths, result in hundredths.
\* (u = 0, where Math.log gives -Infinity, needs 1103515245 * seed + 12345 to be a
\* multiple of 2^31; no seed up to 100000 does that, and r = 0 is read as r = 1)
randn_bm(seed, variance, mean) ==
    LET u == psudo_randm(seed)
        v == psudo_randm(seed + 1)
        Z == TDiv(sqrt_neg2_log(Max(u, 1)) * cos_2pi(v), 10000)
        X == TDiv(variance * Z, 100) + mean
    IN  X

(***************************************************************************)
(* Helpers of the reducer                                                  *)
(***************************************************************************)
\* set_seed
set_seed(st, x, y) == [st EXCEPT !.meta_state.rand_seed = x + y]

\* the button layout of the earlier reducer (src/pong.ts, button_click_check):
\* a faulty variant of button_click_check here, which C9 must tell apart
button_click_check_shifted(x, y) ==
    IF x > 173 /\ x < 443
    THEN IF y > 278 /\ y < 342 THEN 1
         ELSE IF y > 362 /\ y < 432 THEN 2
         ELSE IF y > 442 /\ y < 505 THEN 3
         ELSE 0
    ELSE 0

\* button_click_check: 1, 2 or 3 for a button, 0 for none
button_click_check(x, y) ==
    IF x > 173 /\ x < 443
    THEN IF y > 347 /\ y < 407 THEN 1
         ELSE IF y > 430 /\ y < 490 THEN 2
         ELSE IF y > 512 /\ y < 574 THEN 3
         ELSE 0
    ELSE 0

\* get_paddle_range(Paddle_owner)(s)
get_paddle_range(Paddle_owner, st) ==
    LET is_ai == Paddle_owner = AI
        y     == IF is_ai THEN st.ai_paddle.paddle.y ELSE st.player_state.paddle.y
        size  == IF is_ai THEN st.ai_paddle.paddle.size ELSE st.player_state.paddle.size
    IN  [max |-> y + size * px(STARTING_PADDLE_SIZE), min |-> y]

\* 1 / (1 + Math.exp(k)) * 10000, for the k a score in 0 .. 7 gives
logistic(k) ==
    CASE k = -4 -> 9820 [] k = -3 -> 9526 [] k = -2 -> 8808 [] k = -1 -> 7311
      [] k = 0  -> 5000 [] k = 1  -> 2689 [] k = 2  -> 1192 [] k = 3  -> 474
      [] k = 4  -> 180

\* prediction_deviation, in hundredths of a pixel
prediction_deviation(st) ==
    LET player_help == (5000 * logistic(st.player_score - 4)) \div 10000 + 500
        ai_help     == (3500 * logistic(-st.ai_score + 4)) \div 10000
        variance    == ((player_help + ai_help) * 90) \div (st.meta_state.difficulty * 100)
        generated_number == randn_bm(st.meta_state.rand_seed, variance, 0)
    IN  generated_number

(***************************************************************************)
(* The handlers of the events other than Tick                              *)
(***************************************************************************)
\* a faulty variant of move_player_paddle_func that also moves the paddle,
\* which C12 must tell apart
move_player_paddle_func_moving(st, ev) ==
    [st EXCEPT !.player_state.paddle.direction = ev.direction,
               !.player_state.paddle.y = @ + px(ev.direction)]

\* move_player_paddle_func; ev is a move_player_paddle
move_player_paddle_func(st, ev) ==
    [st EXCEPT !.player_state.paddle.direction = ev.direction]

\* get_new_player_y(direction)(s)
get_new_player_y(direction, st) ==
    LET p == st.player_state.paddle
    IN  IF p.y + px(direction) < 0
        THEN 0
        ELSE IF p.y + px(direction) > px(MAX_Y) - p.size * px(STARTING_PADDLE_SIZE)
             THEN px(MAX_Y) - p.size * px(STARTING_PADDLE_SIZE)
             ELSE p.y + direction * px(p.speed)

\* a faulty variant of pause_func that toggles on every menu, which C8 must
\* tell apart
pause_func_unguarded(st) ==
    [st EXCEPT !.meta_state.is_paused = ~st.meta_state.is_paused]

\* a faulty variant of pause_func that also stops the player's paddle, which
\* C39 must tell apart
pause_func_halting(st) ==
    IF st.meta_state.has_started /\ ~st.meta_state.has_ended
    THEN [st EXCEPT !.meta_state.is_paused = ~st.meta_state.is_paused,
                    !.player_state.paddle.direction = 0]
    ELSE st

\* pause_func
pause_func(st) ==
    IF st.meta_state.has_started /\ ~st.meta_state.has_ended
    THEN [st EXCEPT !.meta_state.is_paused = ~st.meta_state.is_paused]
    ELSE st

\* unpause
unpause(st) == [st EXCEPT !.meta_state.is_paused = FALSE]

\* set_difficulty
set_difficulty(new_difficulty, st) ==
    [st EXCEPT !.meta_state.difficulty = new_difficulty]

\* set_start
set_start(st) ==
    [st EXCEPT !.meta_state.has_started = TRUE, !.meta_state.is_paused = FALSE]

\* a faulty variant of game_start_menu that keeps the seed of a click that
\* hits no button, which C10 must tell apart
game_start_menu_seeded(st, mouse_x, mouse_y) ==
    LET seed_set_s     == set_seed(st, mouse_x, mouse_y)
        button_clicked == button_click_check(mouse_x, mouse_y)
    IN  IF button_clicked # 0
        THEN set_start(set_difficulty(button_clicked, seed_set_s))
        ELSE seed_set_s

\* game_start_menu
game_start_menu(st, mouse_x, mouse_y) ==
    LET seed_set_s     == set_seed(st, mouse_x, mouse_y)
        button_clicked == button_click_check(mouse_x, mouse_y)
    IN  IF button_clicked # 0
        THEN set_start(set_difficulty(button_clicked, seed_set_s))
        ELSE st

\* reset_game
reset_game == initialState

\* pause_menu
pause_menu(st, mouse_x, mouse_y) ==
    LET button_clicked == button_click_check(mouse_x, mouse_y)
    IN  IF button_clicked = 1 THEN unpause(st)
        ELSE IF button_clicked = 2 THEN reset_game
        ELSE st

\* a faulty variant of end_menu whose reset keeps the scores, which C11 must
\* tell apart
end_menu_keep_scores(st, mouse_x, mouse_y) ==
    LET button_clicked == button_click_check(mouse_x, mouse_y)
    IN  IF button_clicked = 1
        THEN [reset_game EXCEPT !.player_score = st.player_score,
                                !.ai_score = st.ai_score]
        ELSE st

\* end_menu
end_menu(st, mouse_x, mouse_y) ==
    LET button_clicked == button_click_check(mouse_x, mouse_y)
    IN  IF button_clicked = 1 THEN reset_game ELSE st

\* mouse_click_func; ev is a mouse_click
mouse_click_func(st, ev) ==
    IF ~st.meta_state.has_started THEN game_start_menu(st, ev.x, ev.y)
    ELSE IF st.meta_state.has_ended THEN end_menu(st, ev.x, ev.y)
    ELSE IF st.meta_state.is_paused THEN pause_menu(st, ev.x, ev.y)
    ELSE st

\* activate_power_ball; ev is a use_power_up
activate_power_ball(st, ev) ==
    [st EXCEPT !.meta_state.power_up_activated = ev.activated]

(***************************************************************************)
(* Collisions and velocities                                               *)
(***************************************************************************)
\* const enum Ball_type
main_ball == 0

power_ball == 1

heuristic_ball == 2

\* ball_collide_with_paddle
ball_collide_with_paddle(Paddle_owner, st) ==
    LET range     == get_paddle_range(Paddle_owner, st)
        ball_size == px(STARTING_BALL_SIZE) * st.ball.size
        x_line_has_passed ==
            IF Paddle_owner = AI THEN st.ball.x <= px(41) ELSE st.ball.x >= px(559)
        y_collided == st.ball.y >= range.min - ball_size /\ st.ball.y <= range.max + ball_size
    IN  x_line_has_passed /\ y_collided

\* check_collision_with_both_paddle
check_collision_with_both_paddle(st) ==
    ball_collide_with_paddle(AI, st) \/ ball_collide_with_paddle(CONTROLLED_PLAYER, st)

\* get_paddle_contact_strength(p)(s), in hundredths
get_paddle_contact_strength(p, st) ==
    LET paddle_state  == IF p = AI THEN st.ai_paddle.paddle ELSE st.player_state.paddle
        paddle_y      == paddle_state.y
        paddle_size   == paddle_state.size * px(STARTING_PADDLE_SIZE)
        paddle_center == paddle_y + (paddle_size \div 2)
        ball_y        == st.ball.y
        dist_to_center == TDiv((paddle_center - ball_y) * 100, paddle_size \div 2)
    IN  dist_to_center

\* new_ball_velocity
new_ball_velocity(st, ball_type) ==
    LET is_main_ball == ball_type = main_ball
        ball_state   == IF is_main_ball THEN st.ball ELSE st.power_up_ball
        y_pos        == ball_state.y
        x_pos        == ball_state.x
        ball_size    == ball_state.size * px(STARTING_BALL_SIZE)
        velocity     == ball_state.velocity
    IN  IF \/ x_pos <= ball_size
           \/ x_pos >= px(MAX_X) - ball_size
           \/ check_collision_with_both_paddle(st)
        THEN IF ball_collide_with_paddle(AI, st)
             THEN x_reflect_paddle(velocity, get_paddle_contact_strength(AI, st))
             ELSE IF ball_collide_with_paddle(CONTROLLED_PLAYER, st)
                  THEN x_reflect(velocity)
                  ELSE x_reflect_paddle(velocity,
                                        get_paddle_contact_strength(CONTROLLED_PLAYER, st))
        ELSE IF y_pos <= ball_size \/ y_pos >= px(MAX_Y) - ball_size
             THEN y_reflect(velocity)
             ELSE velocity

\* get_new_power_ball_velocity
get_new_power_ball_velocity(st) ==
    IF st.power_up_ball.x <= px(100) \/ st.power_up_ball.x >= px(400)
    THEN y_reflect(st.power_up_ball.velocity)
    ELSE IF st.power_up_ball.y <= px(100) \/ st.ball.y >= px(400)
         THEN x_reflect(st.power_up_ball.velocity)
         ELSE st.power_up_ball.velocity

(***************************************************************************)
(* The tick functions                                                      *)
(***************************************************************************)
\* get_new_ai_y
\* a faulty variant of get_new_ai_y that snaps onto a target within
\* paddle_speed, which C22 must tell apart
get_new_ai_y_snapping(curr_y, target_y, paddle_speed) ==
    IF Abs(curr_y - target_y) <= paddle_speed
    THEN target_y
    ELSE IF curr_y < target_y THEN curr_y + paddle_speed ELSE curr_y - paddle_speed

\* a faulty variant of get_new_ai_y whose dead zone leaves out the distance
\* paddle_speed itself, which C14 must tell apart
get_new_ai_y_strict(curr_y, target_y, paddle_speed) ==
    IF Abs(curr_y - target_y) < paddle_speed
    THEN curr_y
    ELSE IF curr_y < target_y THEN curr_y + paddle_speed ELSE curr_y - paddle_speed

get_new_ai_y(curr_y, target_y, paddle_speed) ==
    IF Abs(curr_y - target_y) <= paddle_speed
    THEN curr_y
    ELSE IF curr_y < target_y THEN curr_y + paddle_speed ELSE curr_y - paddle_speed

\* move_player_tick_function(p)(s)
move_player_tick_function(p, st) ==
    LET new_y_pos ==
            IF p = AI
            THEN get_new_ai_y(st.ai_paddle.paddle.y, st.ai_paddle.y_target,
                              px(st.ai_paddle.paddle.speed))
            ELSE get_new_player_y(st.player_state.paddle.direction, st)
    IN  IF p = AI
        THEN [st EXCEPT !.ai_paddle.paddle.y = new_y_pos]
        ELSE [st EXCEPT !.player_state.paddle.y = new_y_pos]

\* a faulty variant of get_y_target that follows the heuristic ball in every
\* tick in which it exists, which C30 must tell apart
get_y_target_following(st) ==
    IF ~IsNull(st.ai_paddle.heuristic_ball)
    THEN Val(st.ai_paddle.heuristic_ball).y - px(40) + prediction_deviation(st)
    ELSE IF st.ball.x < px(40)
         THEN randn_bm(st.meta_state.rand_seed + 3, px(250), px(300))
         ELSE st.ai_paddle.y_target

\* get_y_target
get_y_target(st) ==
    IF ~IsNull(st.ai_paddle.heuristic_ball)
    THEN IF Val(st.ai_paddle.heuristic_ball).x < px(40)
         THEN Val(st.ai_paddle.heuristic_ball).y - px(40) + prediction_deviation(st)
         ELSE st.ai_paddle.y_target
    ELSE IF st.ball.x < px(40)
         THEN randn_bm(st.meta_state.rand_seed + 3, px(250), px(300))
         ELSE st.ai_paddle.y_target

\* a faulty variant of find_ai_target_tick_function without the clamp, which
\* C21 must tell apart
find_ai_target_tick_function_unclamped(st) ==
    [st EXCEPT !.ai_paddle.y_target = get_y_target(st)]

\* find_ai_target_tick_function
find_ai_target_tick_function(st) ==
    LET max_y_pos    == px(MAX_Y) - px(STARTING_PADDLE_SIZE) * st.ai_paddle.paddle.size
        target_y     == get_y_target(st)
        new_player_y == Max(Min(target_y, max_y_pos), 0)
    IN  [st EXCEPT !.ai_paddle.y_target = new_player_y]

\* create_heuristic_ball_tick_function
create_heuristic_ball_tick_function(st) ==
    IF IsNull(st.ai_paddle.heuristic_ball)
    THEN LET new_ball_made ==
                 IF ball_collide_with_paddle(CONTROLLED_PLAYER, st)
                 THEN Some([st.ball EXCEPT
                              !.x = st.ball.x + new_ball_velocity(st, main_ball).dx,
                              !.y = st.ball.y + new_ball_velocity(st, main_ball).dy,
                              !.velocity = new_ball_velocity(st, main_ball)])
                 ELSE Null
         IN  [st EXCEPT !.ai_paddle.heuristic_ball = new_ball_made]
    ELSE st

\* move_heuristic_ball_tick_function
move_heuristic_ball_tick_function(st) ==
    IF ~IsNull(st.ai_paddle.heuristic_ball)
    THEN LET h == Val(st.ai_paddle.heuristic_ball)
             updated_h_ball ==
                 IF h.x < px(40)
                 THEN Null
                 ELSE Some([h EXCEPT
                              !.x = h.x + new_ball_velocity(st, heuristic_ball).dx * 2,
                              !.y = h.y + new_ball_velocity(st, heuristic_ball).dy * 2,
                              !.velocity = new_ball_velocity(st, heuristic_ball)])
         IN  [st EXCEPT !.ai_paddle.heuristic_ball = updated_h_ball]
    ELSE st

\* move_ball_tick_function
move_ball_tick_function(st) ==
    IF st.ball.x >= px(MAX_X) - px(30) \/ st.ball.x <= px(30)
    THEN [st EXCEPT
            !.ball.x = randn_bm(st.meta_state.rand_seed + 10, px(50), px(200)),
            !.ball.y = randn_bm(st.meta_state.rand_seed + 11, px(50), px(200)),
            !.ball.velocity =
                Vector(initial_ball_State.velocity.magnitude,
                       psudo_randm(st.meta_state.rand_seed + 13) \div 21474836),
            !.meta_state.score_has_updated = FALSE]
    ELSE [st EXCEPT
            !.ball.x = st.ball.x + new_ball_velocity(st, main_ball).dx,
            !.ball.y = st.ball.y + new_ball_velocity(st, main_ball).dy,
            !.ball.velocity = new_ball_velocity(st, main_ball)]

\* move_power_ball_tick_function
move_power_ball_tick_function(st) ==
    [st EXCEPT
       !.power_up_ball.x = st.power_up_ball.x + get_new_power_ball_velocity(st).dx,
       !.power_up_ball.y = st.power_up_ball.y + get_new_power_ball_velocity(st).dy,
       !.power_up_ball.velocity = get_new_power_ball_velocity(st)]

\* a faulty variant of update_score_tick_function that counts a point
\* twice, which C38 must tell apart
update_score_twice(st) ==
    IF /\ ~st.meta_state.score_has_updated
       /\ ~check_collision_with_both_paddle(st)
       /\ (st.ball.x > px(562) \/ st.ball.x < px(38))
    THEN [st EXCEPT
            !.player_score = IF st.ball.x > px(560) THEN st.ai_score + 2 ELSE st.ai_score,
            !.ai_score = IF st.ball.x < px(38) THEN st.player_score + 2 ELSE st.player_score,
            !.meta_state.score_has_updated = TRUE]
    ELSE st

\* a faulty variant of update_score_tick_function without the
\* score_has_updated guard, which C2 must tell apart
update_score_unguarded(st) ==
    IF /\ ~check_collision_with_both_paddle(st)
       /\ (st.ball.x > px(562) \/ st.ball.x < px(38))
    THEN [st EXCEPT
            !.player_score = IF st.ball.x > px(560) THEN st.ai_score + 1 ELSE st.ai_score,
            !.ai_score = IF st.ball.x < px(38) THEN st.player_score + 1 ELSE st.player_score,
            !.meta_state.score_has_updated = TRUE]
    ELSE st

\* update_score_tick_function
update_score_tick_function(st) ==
    IF /\ ~st.meta_state.score_has_updated
       /\ ~check_collision_with_both_paddle(st)
       /\ (st.ball.x > px(562) \/ st.ball.x < px(38))
    THEN [st EXCEPT
            !.player_score = IF st.ball.x > px(560) THEN st.ai_score + 1 ELSE st.ai_score,
            !.ai_score = IF st.ball.x < px(38) THEN st.player_score + 1 ELSE st.player_score,
            !.meta_state.score_has_updated = TRUE]
    ELSE st

\* check_for_last_hit
check_for_last_hit(st) ==
    IF ball_collide_with_paddle(AI, st)
    THEN [st EXCEPT !.meta_state.last_hit = AI]
    ELSE IF ball_collide_with_paddle(CONTROLLED_PLAYER, st)
         THEN [st EXCEPT !.meta_state.last_hit = CONTROLLED_PLAYER]
         ELSE st

\* a faulty variant of update_seed_tick_function whose stride counts the
\* draw of a tick that re-rolls the AI's target, which C29 must tell apart
update_seed_tick_function_drawn(st) ==
    [st EXCEPT !.meta_state.rand_seed =
        st.meta_state.rand_seed + MAX_RAND_NUM_GET
            + (IF st.ball.x < px(40) THEN 1 ELSE 0)]

\* update_seed_tick_function; the modulus 100000000000 is beyond every seed the
\* model reaches (Tick is taken only below MaxSeed), so the remainder is the sum
update_seed_tick_function(st) ==
    [st EXCEPT !.meta_state.rand_seed = st.meta_state.rand_seed + MAX_RAND_NUM_GET]

\* a faulty variant of check_if_player_power_up_activated in which the
\* player's intent flag also activates the AI's power-up, which C17 must tell
\* apart
check_if_player_power_up_activated_shared(p, st) ==
    LET has_activated ==
            IF p = AI
            THEN \/ below_1_in_1000(psudo_randm(st.meta_state.rand_seed + 50))
                 \/ st.meta_state.power_up_activated
            ELSE st.meta_state.power_up_activated
    IN  IF has_activated
        THEN IF p = AI
             THEN [st EXCEPT
                     !.ai_paddle.power_up_holding = none,
                     !.ai_paddle.activated_power_up =
                         IF st.ai_paddle.power_up_holding # none
                         THEN Some(active_power_up(st.ai_paddle.power_up_holding,
                                                   POWERUP_TIME))
                         ELSE st.ai_paddle.activated_power_up]
             ELSE [st EXCEPT
                     !.player_state.power_up_holding = none,
                     !.player_state.activated_power_up =
                         IF st.player_state.power_up_holding # none
                         THEN Some(active_power_up(st.player_state.power_up_holding,
                                                   POWERUP_TIME))
                         ELSE st.player_state.activated_power_up]
        ELSE st

\* check_if_player_power_up_activated(p)(s); power_up_holding is a power_up_type,
\* never null, so the test "power_up_holding !== null" is true
check_if_player_power_up_activated(p, st) ==
    LET has_activated ==
            IF p = AI
            THEN below_1_in_1000(psudo_randm(st.meta_state.rand_seed + 50))
            ELSE st.meta_state.power_up_activated
    IN  IF has_activated
        THEN IF p = AI
             THEN [st EXCEPT
                     !.ai_paddle.power_up_holding = none,
                     !.ai_paddle.activated_power_up =
                         IF st.ai_paddle.power_up_holding # none
                         THEN Some(active_power_up(st.ai_paddle.power_up_holding,
                                                   POWERUP_TIME))
                         ELSE st.ai_paddle.activated_power_up]
             ELSE [st EXCEPT
                     !.player_state.power_up_holding = none,
                     !.player_state.activated_power_up =
                         IF st.player_state.power_up_holding # none
                         THEN Some(active_power_up(st.player_state.power_up_holding,
                                                   POWERUP_TIME))
                         ELSE st.player_state.activated_power_up]
        ELSE st

\* ball_collision_ball
ball_collision_ball(st) ==
    LET ball_x == st.ball.x
        ball_y == st.ball.y
        pb_x   == st.power_up_ball.x
        pb_y   == st.power_up_ball.y
        y_in_range == ball_y >= pb_y /\ ball_y <= pb_y + px(STARTING_PBALL_SIZE)
        x_in_range == ball_x >= pb_x /\ ball_x <= pb_x + px(STARTING_PBALL_SIZE)
    IN  y_in_range /\ x_in_range /\ st.power_up_ball.is_active

\* return_random_power_up; rand_num = r / 2147483647, so rand_num < 0.25 is
\* r <= 536870911, rand_num > 0.25 is r >= 536870912, and so on
return_random_power_up(st) ==
    LET r == psudo_randm(st.meta_state.rand_seed + 40)
    IN  IF r <= 536870911 THEN expand
        ELSE IF r >= 536870912 /\ r <= 1073741823 THEN fast_ball
        ELSE IF r >= 1073741824 /\ r <= 1610612735 THEN speed
        ELSE IF r >= 1610612736 THEN return
        ELSE none

\* a faulty variant of check_pb_interaction_tick that hands the pickup to a
\* side that already holds a kind, which C18 must tell apart
check_pb_interaction_tick_overwriting(st) ==
    IF ball_collision_ball(st)
    THEN IF st.meta_state.last_hit = AI
         THEN [st EXCEPT !.power_up_ball.is_active = FALSE,
                         !.ai_paddle.power_up_holding = return_random_power_up(st)]
         ELSE [st EXCEPT !.power_up_ball.is_active = FALSE,
                         !.player_state.power_up_holding = return_random_power_up(st)]
    ELSE st

\* check_pb_interaction_tick
check_pb_interaction_tick(st) ==
    IF ball_collision_ball(st)
    THEN IF st.meta_state.last_hit = AI /\ st.ai_paddle.power_up_holding = none
         THEN [st EXCEPT !.power_up_ball.is_active = FALSE,
                         !.ai_paddle.power_up_holding = return_random_power_up(st)]
         ELSE IF /\ st.meta_state.last_hit = CONTROLLED_PLAYER
                 /\ st.player_state.power_up_holding = none
              THEN [st EXCEPT !.power_up_ball.is_active = FALSE,
                              !.player_state.power_up_holding = return_random_power_up(st)]
              ELSE st
    ELSE st

\* appear_pb_on_screen_tick
appear_pb_on_screen_tick(st) ==
    [st EXCEPT !.power_up_ball.is_active =
        IF below_1_in_1000(psudo_randm(st.meta_state.rand_seed + 41))
        THEN TRUE
        ELSE st.power_up_ball.is_active]

\* the activated_power_up of a side
activated_of(p, st) ==
    IF p = AI THEN st.ai_paddle.activated_power_up ELSE st.player_state.activated_power_up

\* active_power_up_tick(p)(s)
active_power_up_tick(p, st) ==
    LET active_power_up_o == activated_of(p, st)
    IN  IF ~IsNull(active_power_up_o)
        THEN IF p = AI
             THEN [st EXCEPT !.ai_paddle.activated_power_up =
                                 active_power_up_tick_method(Val(active_power_up_o))]
             ELSE [st EXCEPT !.player_state.activated_power_up =
                                 active_power_up_tick_method(Val(active_power_up_o))]
        ELSE st

\* a faulty variant of fastball_power_up_function that multiplies while the
\* power-up runs, which C16 must tell apart
fastball_power_up_function_lasting(p, st) ==
    LET active_power_up_o == Val(activated_of(p, st))
    IN  IF active_power_up_o.power_up_t = fast_ball
        THEN [st EXCEPT !.ball.velocity =
                 IF active_power_up_o.duration_left > 1
                 THEN Vector(st.ball.velocity.magnitude * 4, st.ball.velocity.angle)
                 ELSE st.ball.velocity]
        ELSE st

\* fastball_power_up_function(p)(s); called with a non-null activated_power_up
fastball_power_up_function(p, st) ==
    LET active_power_up_o == Val(activated_of(p, st))
    IN  IF active_power_up_o.power_up_t = fast_ball
        THEN [st EXCEPT !.ball.velocity =
                 IF active_power_up_o.duration_left > POWERUP_TIME - 1
                 THEN Vector(st.ball.velocity.magnitude * 4, st.ball.velocity.angle)
                 ELSE st.ball.velocity]
        ELSE st

\* a faulty variant of speed_power_up_function that never sets the speed
\* back, which C26 must tell apart
speed_power_up_function_unreverted(p, st) ==
    LET active_power_up_o == Val(activated_of(p, st))
    IN  IF active_power_up_o.power_up_t = speed /\ active_power_up_o.duration_left > 1
        THEN IF p = CONTROLLED_PLAYER
             THEN [st EXCEPT !.player_state.paddle.speed = 10]
             ELSE [st EXCEPT !.ai_paddle.paddle.speed = 10]
        ELSE st

\* speed_power_up_function(p)(s)
speed_power_up_function(p, st) ==
    LET active_power_up_o == Val(activated_of(p, st))
    IN  IF active_power_up_o.power_up_t = speed
        THEN IF p = CONTROLLED_PLAYER
             THEN [st EXCEPT !.player_state.paddle.speed =
                      IF active_power_up_o.duration_left > 1
                      THEN 10 ELSE initial_player_paddle_state.speed]
             ELSE [st EXCEPT !.ai_paddle.paddle.speed =
                      IF active_power_up_o.duration_left > 1
                      THEN 10 ELSE initial_ai_paddle_state.speed]
        ELSE st

\* expand_power_up_function(p)(s)
expand_power_up_function(p, st) ==
    LET active_power_up_o == Val(activated_of(p, st))
    IN  IF active_power_up_o.power_up_t = expand
        THEN IF p = CONTROLLED_PLAYER
             THEN [st EXCEPT !.player_state.paddle.size =
                      IF active_power_up_o.duration_left > 1 THEN 2 ELSE 1]
             ELSE [st EXCEPT !.ai_paddle.paddle.size =
                      IF active_power_up_o.duration_left > 1 THEN 2 ELSE 1]
        ELSE st

\* a faulty variant of return_power_up_function that reflects while the
\* power-up runs, which C27 must tell apart
return_power_up_function_lasting(p, st) ==
    LET active_power_up_o == Val(activated_of(p, st))
    IN  IF active_power_up_o.power_up_t = return
        THEN [st EXCEPT !.ball.velocity =
                 IF active_power_up_o.duration_left > 1
                 THEN x_reflect(st.ball.velocity)
                 ELSE st.ball.velocity]
        ELSE st

\* return_power_up_function(p)(s)
return_power_up_function(p, st) ==
    LET active_power_up_o == Val(activated_of(p, st))
    IN  IF active_power_up_o.power_up_t = return
        THEN [st EXCEPT !.ball.velocity =
                 IF active_power_up_o.duration_left > POWERUP_TIME - 1
                 THEN x_reflect(st.ball.velocity)
                 ELSE st.ball.velocity]
        ELSE st

\* active_power_up_effect_tick(p)(s): the four effects piped in the order of the array
active_power_up_effect_tick(p, st) ==
    IF ~IsNull(activated_of(p, st))
    THEN return_power_up_function(p,
           expand_power_up_function(p,
             speed_power_up_function(p,
               fastball_power_up_function(p, st))))
    ELSE st

\* a faulty variant of check_end_game_tick_function that ends the game
\* without pausing it, which C5 must tell apart
check_end_game_unpaused(st) ==
    LET game_ended == st.ai_score >= 7 \/ st.player_score >= 7
    IN  [st EXCEPT !.meta_state.has_ended = game_ended]

\* check_end_game_tick_function
check_end_game_tick_function(st) ==
    LET game_ended == st.ai_score >= 7 \/ st.player_score >= 7
    IN  [st EXCEPT !.meta_state.is_paused = game_ended,
                   !.meta_state.has_ended = game_ended]

\* a faulty order of the array tick_functions, with the end-of-game check
\* ahead of the score update, which C6 must tell apart
tick_functions_end_first(i, st) ==
    CASE i = 1  -> move_player_tick_function(CONTROLLED_PLAYER, st)
      [] i = 2  -> move_player_tick_function(AI, st)
      [] i = 3  -> active_power_up_effect_tick(CONTROLLED_PLAYER, st)
      [] i = 4  -> active_power_up_effect_tick(AI, st)
      [] i = 5  -> active_power_up_tick(AI, st)
      [] i = 6  -> active_power_up_tick(CONTROLLED_PLAYER, st)
      [] i = 7  -> find_ai_target_tick_function(st)
      [] i = 8  -> move_heuristic_ball_tick_function(st)
      [] i = 9  -> create_heuristic_ball_tick_function(st)
      [] i = 10 -> move_ball_tick_function(st)
      [] i = 11 -> move_power_ball_tick_function(st)
      [] i = 12 -> check_end_game_tick_function(st)
      [] i = 13 -> update_seed_tick_function(st)
      [] i = 14 -> update_score_tick_function(st)
      [] i = 15 -> check_if_player_power_up_activated(CONTROLLED_PLAYER, st)
      [] i = 16 -> check_if_player_power_up_activated(AI, st)
      [] i = 17 -> check_for_last_hit(st)
      [] i = 18 -> check_pb_interaction_tick(st)
      [] i = 19 -> appear_pb_on_screen_tick(st)

\* a faulty order of the array tick_functions, with the last-hit check ahead
\* of the main ball's move, which C33 must tell apart
tick_functions_hit_first(i, st) ==
    CASE i = 1  -> move_player_tick_function(CONTROLLED_PLAYER, st)
      [] i = 2  -> move_player_tick_function(AI, st)
      [] i = 3  -> active_power_up_effect_tick(CONTROLLED_PLAYER, st)
      [] i = 4  -> active_power_up_effect_tick(AI, st)
      [] i = 5  -> active_power_up_tick(AI, st)
      [] i = 6  -> active_power_up_tick(CONTROLLED_PLAYER, st)
      [] i = 7  -> find_ai_target_tick_function(st)
      [] i = 8  -> move_heuristic_ball_tick_function(st)
      [] i = 9  -> create_heuristic_ball_tick_function(st)
      [] i = 10 -> check_for_last_hit(st)
      [] i = 11 -> move_ball_tick_function(st)
      [] i = 12 -> move_power_ball_tick_function(st)
      [] i = 13 -> update_score_tick_function(st)
      [] i = 14 -> update_seed_tick_function(st)
      [] i = 15 -> check_end_game_tick_function(st)
      [] i = 16 -> check_if_player_power_up_activated(CONTROLLED_PLAYER, st)
      [] i = 17 -> check_if_player_power_up_activated(AI, st)
      [] i = 18 -> check_pb_interaction_tick(st)
      [] i = 19 -> appear_pb_on_screen_tick(st)

\* the i-th entry of the array tick_functions of Tick_func, applied to st
tick_functions(i, st) ==
    CASE i = 1  -> move_player_tick_function(CONTROLLED_PLAYER, st)
      [] i = 2  -> move_player_tick_function(AI, st)
      [] i = 3  -> active_power_up_effect_tick(CONTROLLED_PLAYER, st)
      [] i = 4  -> active_power_up_effect_tick(AI, st)
      [] i = 5  -> active_power_up_tick(AI, st)
      [] i = 6  -> active_power_up_tick(CONTROLLED_PLAYER, st)
      [] i = 7  -> find_ai_target_tick_function(st)
      [] i = 8  -> move_heuristic_ball_tick_function(st)
      [] i = 9  -> create_heuristic_ball_tick_function(st)
      [] i = 10 -> move_ball_tick_function(st)
      [] i = 11 -> move_power_ball_tick_function(st)
      [] i = 12 -> update_score_tick_function(st)
      [] i = 13 -> update_seed_tick_function(st)
      [] i = 14 -> check_end_game_tick_function(st)
      [] i = 15 -> check_if_player_power_up_activated(CONTROLLED_PLAYER, st)
      [] i = 16 -> check_if_player_power_up_activated(AI, st)
      [] i = 17 -> check_for_last_hit(st)
      [] i = 18 -> check_pb_interaction_tick(st)
      [] i = 19 -> appear_pb_on_screen_tick(st)

RECURSIVE pipeFuncs(_, _)
\* pipeFuncs over the first n tick functions: the state after the n-th of them
pipeFuncs(n, st) == IF n = 0 THEN st ELSE tick_functions(n, pipeFuncs(n - 1, st))

\* a faulty variant of Tick_func that runs the pipeline on a paused game,
\* which C7 must tell apart
Tick_func_ungated(st) == pipeFuncs(19, st)

\* Tick_func
Tick_func(st) ==
    LET new_state == IF st.meta_state.is_paused THEN st ELSE pipeFuncs(19, st)
    IN  new_state

\* a faulty variant of reduceState whose Tick draws on Tick.elapsed, which
\* C13 must tell apart
reduceState_clocked(st, ev) ==
    IF ev.type = "mouse_click" THEN mouse_click_func(st, ev)
    ELSE IF ev.type = "use_power_up" THEN activate_power_ball(st, ev)
    ELSE IF ev.type = "move_player_paddle" THEN move_player_paddle_func(st, ev)
    ELSE IF ev.type = "pause" THEN pause_func(st)
    ELSE IF ev.type = "Tick"
         THEN Tick_func([st EXCEPT !.meta_state.rand_seed = @ + ev.elapsed])
    ELSE st

\* reduceState: the dispatch on the class of the event
reduceState(st, ev) ==
    IF ev.type = "mouse_click" THEN mouse_click_func(st, ev)
    ELSE IF ev.type = "use_power_up" THEN activate_power_ball(st, ev)
    ELSE IF ev.type = "move_player_paddle" THEN move_player_paddle_func(st, ev)
    ELSE IF ev.type = "pause" THEN pause_func(st)
    ELSE IF ev.type = "Tick" THEN Tick_func(st)
    ELSE st

\* a faulty variant of display_all_menus whose pause menu ignores the scores,
\* which C20 must tell apart
display_all_menus_by_flags(state) ==
    [pauseMenu   |-> state.meta_state.is_paused /\ state.meta_state.has_started,
     startMenu   |-> state.meta_state.is_paused /\ ~state.meta_state.has_started,
     EndGameMenu |-> /\ state.meta_state.is_paused
                     /\ (state.player_score >= MAX_SCORE \/ state.ai_score >= MAX_SCORE)]

\* display_all_menus: the display_condition handed to displayMenu for each
\* MenuType, by the id of its element
display_all_menus(state) ==
    [pauseMenu   |-> /\ state.meta_state.is_paused
                     /\ state.meta_state.has_started
                     /\ ~(state.player_score >= MAX_SCORE \/ state.ai_score >= MAX_SCORE),
     startMenu   |-> state.meta_state.is_paused /\ ~state.meta_state.has_started,
     EndGameMenu |-> /\ state.meta_state.is_paused
                     /\ (state.player_score >= MAX_SCORE \/ state.ai_score >= MAX_SCORE)]

(***************************************************************************)
(* Bounds of the model                                                     *)
(***************************************************************************)
\* Tick events taken in one run (interval(5) never stops; the model does)
MaxTicks == 3

\* Tick is taken only while rand_seed is below this (psudo_randm is exact up to it)
MaxSeed == 100000

(***************************************************************************)
(* The states a run starts in: initialState, and snapshots of a game in    *)
(* progress (a started, unpaused, unfinished game), each a state the       *)
(* reducer reaches from initialState                                       *)
(***************************************************************************)
\* the state right after a click on a start-menu button, with the seed of the click
started(seed, difficulty) ==
    [initialState EXCEPT !.meta_state.has_started = TRUE,
                         !.meta_state.is_paused = FALSE,
                         !.meta_state.difficulty = difficulty,
                         !.meta_state.rand_seed = seed]

\* the main ball at (x, y) pixels with the given velocity
with_ball(st, x, y, velocity) ==
    [st EXCEPT !.ball.x = px(x), !.ball.y = px(y), !.ball.velocity = velocity]

\* the scores, with score_has_updated as update_score_tick_function left it
with_scores(st, player_score, ai_score, score_has_updated) ==
    [st EXCEPT !.player_score = player_score, !.ai_score = ai_score,
               !.meta_state.score_has_updated = score_has_updated]

\* the player's paddle at y pixels, and what the player holds
with_player(st, y, power_up_holding) ==
    [st EXCEPT !.player_state.paddle.y = px(y),
               !.player_state.power_up_holding = power_up_holding]

\* the AI's paddle at y pixels, resting on its target, and what the AI holds
with_ai(st, y, power_up_holding) ==
    [st EXCEPT !.ai_paddle.paddle.y = px(y), !.ai_paddle.y_target = px(y),
               !.ai_paddle.power_up_holding = power_up_holding]

\* a power-up of the player that has run down to duration_left, with the paddle
\* speed and size its effect has set
with_player_active(st, power_up_t, duration_left) ==
    [st EXCEPT !.player_state.power_up_holding = none,
               !.player_state.activated_power_up =
                   Some(active_power_up(power_up_t, duration_left)),
               !.player_state.paddle.speed = IF power_up_t = speed THEN 10 ELSE 5,
               !.player_state.paddle.size = IF power_up_t = expand THEN 2 ELSE 1]

\* the same for the AI
with_ai_active(st, power_up_t, duration_left) ==
    [st EXCEPT !.ai_paddle.power_up_holding = none,
               !.ai_paddle.activated_power_up =
                   Some(active_power_up(power_up_t, duration_left)),
               !.ai_paddle.paddle.speed = IF power_up_t = speed THEN 10 ELSE 5,
               !.ai_paddle.paddle.size = IF power_up_t = expand THEN 2 ELSE 1]

\* the AI's target at y_target pixels, as find_ai_target_tick_function left it
with_ai_target(st, y_target) ==
    [st EXCEPT !.ai_paddle.y_target = px(y_target)]

\* the side that hit the ball last, as check_for_last_hit left it
with_last_hit(st, p) == [st EXCEPT !.meta_state.last_hit = p]

\* the pickup shown at (x, y) pixels
with_pickup(st, x, y) ==
    [st EXCEPT !.power_up_ball.x = px(x), !.power_up_ball.y = px(y),
               !.power_up_ball.is_active = TRUE]

\* a heuristic ball at (x, y) pixels flying toward the AI's goal line
with_heuristic_ball(st, x, y, velocity) ==
    [st EXCEPT !.ai_paddle.heuristic_ball =
        Some([st.ball EXCEPT !.x = px(x), !.y = px(y), !.velocity = velocity])]

\* the velocity of a ball flying toward the AI's goal line, and toward the player's
toward_ai == x_reflect(initial_ball_State.velocity)

toward_player == initial_ball_State.velocity

\* a game in progress: the AI's paddle has reached its first target
in_play(seed, difficulty) == with_ai(started(seed, difficulty), 300, none)

\* the ball about to leave past the AI's goal line (low x) beside the AI's paddle,
\* about to leave past the player's (high x), already out and about to respawn
low_exit(st) == with_ball(st, 39, 400, toward_ai)

high_exit(st) == with_ball(st, 561, 400, toward_player)

near_respawn(st) == with_ball(st, 31, 400, toward_ai)

\* the ball about to meet the AI's paddle, and the player's
at_ai_paddle(st) == with_ball(st, 42, 340, toward_ai)

at_player_paddle(st) == with_ball(st, 558, 140, toward_player)

\* the main ball about to pass the AI's line beside the upper end of its
\* paddle, its centre above the paddle and within one radius of it
at_ai_paddle_edge(st) == with_ball(st, 42, 290, toward_ai)

\* the player holding a Return with the main ball about to reach the AI's
\* paddle
return_at_ai_paddle(st) == with_player(at_ai_paddle(st), 100, return)

\* the player's FastBall, activated in the place of a running Speed, with one
\* tick left: the paddle still has the speed that the Speed gave it
speed_replaced(st) ==
    [with_player_active(st, fast_ball, 1) EXCEPT !.player_state.paddle.speed = 10]

\* the AI's FastBall just activated with the main ball flying flat at the
\* middle of the AI's paddle, two steps of the quadrupled speed from its line
fast_into_ai_paddle(st) ==
    with_ai_active(with_ball(st, 56, 340, x_reflect(Vector(350, 20))),
                   fast_ball, POWERUP_TIME)

Snapshots ==
    LET g  == in_play(988, 1)
        g3 == in_play(877, 3)
    IN  { started(988, 1),
          \* scoring, single counting, the end of the game
          low_exit(g),
          high_exit(g),
          low_exit(with_scores(g, 6, 3, FALSE)),
          high_exit(with_scores(g, 3, 6, FALSE)),
          low_exit(with_scores(g3, 6, 6, FALSE)),
          near_respawn(with_scores(g, 2, 1, TRUE)),
          \* paddle contact, the heuristic ball
          at_ai_paddle(g),
          at_player_paddle(g3),
          at_ai_paddle_edge(g),
          fast_into_ai_paddle(g3),
          return_at_ai_paddle(g3),
          with_heuristic_ball(g, 45, 300, toward_ai),
          with_heuristic_ball(g, 39, 300, toward_ai),
          with_ai_target(with_heuristic_ball(g3, 300, 200, toward_ai), 305),
          \* paddles at the edges of the field, power-ups held and running
          with_player(g, 10, speed),
          with_player(g, 520, expand),
          with_player(g3, 0, return),
          with_player_active(with_player(g, 5, none), speed, 300),
          with_player_active(with_player(g, 515, none), speed, 2),
          with_player_active(with_player(g3, 440, none), expand, 2),
          with_ai(in_play(1534, 2), 520, expand),
          with_ai(in_play(1534, 3), 300, speed),
          with_ai_active(with_ai(g, 440, none), expand, 1),
          with_ai_active(g3, fast_ball, 600),
          speed_replaced(g),
          with_ai_active(g, return, 600),
          \* the pickup
          in_play(1543, 2),
          with_pickup(with_ball(g, 410, 210, toward_player), 400, 200),
          with_last_hit(with_pickup(with_ball(g3, 410, 210, toward_ai), 400, 200),
                        CONTROLLED_PLAYER)
        }

Init ==
    /\ s \in {initialState} \cup Snapshots
    /\ e = [type |-> "none"]
    /\ elapsed = 0

(***************************************************************************)
(* The events: one action per class of event merged into the stream        *)
(***************************************************************************)
\* the mouse positions tried: on each button, and on the left edge of button 1, which
\* is outside it
Clicks ==
    { [x |-> 300, y |-> 370], [x |-> 300, y |-> 450], [x |-> 300, y |-> 540],
      [x |-> 173, y |-> 370] }

\* interval(5).pipe(map(elapsed => new Tick(elapsed)))
TickEvent ==
    /\ elapsed < MaxTicks
    /\ s.meta_state.rand_seed < MaxSeed
    /\ e' = [type |-> "Tick", elapsed |-> elapsed]
    /\ s' = reduceState(s, e')
    /\ elapsed' = elapsed + 1

\* startUpMove, StopUpMove, StartDownMove, StopDownMove
MoveEvent ==
    \E direction \in {-1, 0, 1} :
        /\ e' = [type |-> "move_player_paddle", direction |-> direction]
        /\ s' = reduceState(s, e')
        /\ UNCHANGED elapsed

\* StartPowerUpUse, EndPowerUpUse
PowerUpEvent ==
    \E activated \in BOOLEAN :
        /\ e' = [type |-> "use_power_up", activated |-> activated]
        /\ s' = reduceState(s, e')
        /\ UNCHANGED elapsed

\* PauseGame
PauseEvent ==
    /\ e' = [type |-> "pause"]
    /\ s' = reduceState(s, e')
    /\ UNCHANGED elapsed

\* mouseObs
ClickEvent ==
    \E c \in Clicks :
        /\ e' = [type |-> "mouse_click", x |-> c.x, y |-> c.y]
        /\ s' = reduceState(s, e')
        /\ UNCHANGED elapsed

Next == TickEvent \/ MoveEvent \/ PowerUpEvent \/ PauseEvent \/ ClickEvent

Spec == Init /\ [][Next]_vars

(***************************************************************************)
(* Vocabulary of the properties                                            *)
(***************************************************************************)
\* the step is the processing of a Tick event (every other event leaves elapsed alone)
TickStep == e'.type = "Tick" /\ elapsed' = elapsed + 1

\* the step is a Tick that runs the pipeline
UnpausedTickStep == TickStep /\ ~s.meta_state.is_paused

\* a paddle lies inside the field
PaddleInBounds(p) ==
    0 <= p.y /\ p.y <= px(MAX_Y) - p.size * px(STARTING_PADDLE_SIZE)

\* the main ball is past a goal line and touches no paddle
OutOfPlay(st) ==
    /\ st.ball.x > px(562) \/ st.ball.x < px(38)
    /\ ~check_collision_with_both_paddle(st)

\* move_ball_tick_function takes its respawn branch in a tick from st (no step
\* before it moves the ball)
RespawnsIn(st) == st.ball.x >= px(570) \/ st.ball.x <= px(30)

ScoresOf(st) == <<st.player_score, st.ai_score>>

\* the button a click event hits
ButtonOf(ev) ==
    IF ev.x > 173 /\ ev.x < 443
    THEN IF ev.y > 347 /\ ev.y < 407 THEN 1
         ELSE IF ev.y > 430 /\ ev.y < 490 THEN 2
         ELSE IF ev.y > 512 /\ ev.y < 574 THEN 3 ELSE 0
    ELSE 0

OnStartMenu(st) == ~st.meta_state.has_started

OnEndMenu(st) == st.meta_state.has_started /\ st.meta_state.has_ended

OnPauseMenu(st) ==
    st.meta_state.has_started /\ ~st.meta_state.has_ended /\ st.meta_state.is_paused

Running(st) ==
    st.meta_state.has_started /\ ~st.meta_state.has_ended /\ ~st.meta_state.is_paused

(***************************************************************************)
(* C1                                                                      *)
(***************************************************************************)
\* C1 (as claimed): after every tick both paddles satisfy
\* 0 <= paddle.y <= MAX_Y - paddle.size * 80, also while a Speed or an Expand
\* power-up is active or has just started or ended.
C1_PaddleBounds ==
    e.type = "Tick" =>
        /\ PaddleInBounds(s.player_state.paddle)
        /\ PaddleInBounds(s.ai_paddle.paddle)

(***************************************************************************)
(* C2                                                                      *)
(***************************************************************************)
\* C2: a goal-line exit is counted once.  In a tick that starts with the main
\* ball already past a goal line without paddle contact and that does not
\* respawn the ball, the scores do not change; a tick that changes a score
\* leaves score_has_updated true; and a tick clears score_has_updated only
\* through the respawn branch of move_ball_tick_function.
C2_SingleCount ==
    [][ UnpausedTickStep =>
          /\ (OutOfPlay(s) /\ ~RespawnsIn(s)) => ScoresOf(s') = ScoresOf(s)
          /\ ScoresOf(s') # ScoresOf(s) => s'.meta_state.score_has_updated
          /\ (s.meta_state.score_has_updated /\ ~s'.meta_state.score_has_updated)
                => RespawnsIn(s) ]_vars

\* the ball has been past the low goal line for two ticks and one point was given
C2_Witness ==
    /\ e.type = "Tick" /\ elapsed = 2
    /\ OutOfPlay(s) /\ s.ball.x < px(36)
    /\ s.meta_state.score_has_updated
    /\ s.player_score + s.ai_score = 1

(***************************************************************************)
(* C3                                                                      *)
(***************************************************************************)
\* the tick from st gives a point: update_score_tick_function finds the flag
\* down and the ball past a goal line without contact
ScoringTick(st) ==
    LET m == pipeFuncs(11, st)
    IN  ~m.meta_state.score_has_updated /\ OutOfPlay(m)

LowExitTick(st) == ScoringTick(st) /\ pipeFuncs(11, st).ball.x < px(38)

HighExitTick(st) == ScoringTick(st) /\ pipeFuncs(11, st).ball.x > px(562)

\* C3 (as claimed): a scoring tick changes exactly one counter, by exactly one:
\* a low-x exit adds one to ai_score and leaves player_score, a high-x exit
\* adds one to player_score and leaves ai_score.
C3_ScoreArithmetic ==
    [][ UnpausedTickStep =>
          /\ LowExitTick(s) =>
                /\ s'.ai_score = s.ai_score + 1
                /\ s'.player_score = s.player_score
          /\ HighExitTick(s) =>
                /\ s'.player_score = s.player_score + 1
                /\ s'.ai_score = s.ai_score ]_vars

(***************************************************************************)
(* C4                                                                      *)
(***************************************************************************)
\* the step is a click that resets the game: button 1 of the end menu or
\* button 2 of the pause menu (reset_game)
ResetStep ==
    /\ e'.type = "mouse_click"
    /\ \/ OnEndMenu(s) /\ ButtonOf(e') = 1
       \/ OnPauseMenu(s) /\ ButtonOf(e') = 2

\* C4 (as claimed): both scores are non-negative in every state, and between
\* resets no step lowers player_score or ai_score.
C4_ScoresMonotone ==
    [][ /\ s'.player_score >= 0 /\ s'.ai_score >= 0
        /\ ~ResetStep =>
              /\ s'.player_score >= s.player_score
              /\ s'.ai_score >= s.ai_score ]_vars

(***************************************************************************)
(* C5                                                                      *)
(***************************************************************************)
\* C5: the end of the game is terminal.  A tick that leaves a score at
\* MAX_SCORE or more leaves has_ended and is_paused true; a Tick processed
\* after the end returns the state unchanged; and has_ended stays true on
\* every step but a click on button 1 of the end menu.
C5_EndTerminal ==
    [][ /\ (TickStep /\ (s'.player_score >= MAX_SCORE \/ s'.ai_score >= MAX_SCORE))
              => (s'.meta_state.has_ended /\ s'.meta_state.is_paused)
        /\ (TickStep /\ s.meta_state.has_ended) => s' = s
        /\ (s.meta_state.has_ended /\ ~ResetStep) => s'.meta_state.has_ended ]_vars

\* a Tick has been processed on a game that had ended at an earlier tick
C5_Witness ==
    /\ e.type = "Tick" /\ e.elapsed = MaxTicks - 1
    /\ s.meta_state.has_ended /\ s.meta_state.is_paused
    /\ s.ai_score >= MAX_SCORE

(***************************************************************************)
(* C6                                                                      *)
(***************************************************************************)
\* C6: after every processed event the game has ended exactly when a score
\* has reached MAX_SCORE.
C6_EndIffScore ==
    s.meta_state.has_ended <=>
        (s.player_score >= MAX_SCORE \/ s.ai_score >= MAX_SCORE)

\* a tick has just brought the player's score to MAX_SCORE and ended the game
C6_Witness ==
    /\ e.type = "Tick" /\ e.elapsed = 0
    /\ s.player_score >= MAX_SCORE
    /\ s.meta_state.has_ended

(***************************************************************************)
(* C7                                                                      *)
(***************************************************************************)
\* C7: a Tick processed while the game is paused returns the state unchanged.
C7_PausedTick ==
    [][ (TickStep /\ s.meta_state.is_paused) => s' = s ]_vars

\* a Tick has been processed on the pause menu of a game in progress (only
\* the end of a game pauses inside a tick, so the pause preceded the Tick)
C7_Witness ==
    /\ e.type = "Tick"
    /\ OnPauseMenu(s)
    /\ s.ball.x # initial_ball_State.x

(***************************************************************************)
(* C8                                                                      *)
(***************************************************************************)
\* C8: a pause event flips is_paused exactly when the game has started and
\* has not ended, and changes no other field in either case.
C8_PauseToggle ==
    [][ e'.type = "pause" =>
          /\ (s'.meta_state.is_paused # s.meta_state.is_paused)
                <=> (s.meta_state.has_started /\ ~s.meta_state.has_ended)
          /\ [s' EXCEPT !.meta_state.is_paused = s.meta_state.is_paused] = s ]_vars

\* a pause event has paused a running game
C8_Witness ==
    /\ e.type = "pause"
    /\ OnPauseMenu(s)

(***************************************************************************)
(* C9                                                                      *)
(***************************************************************************)
\* C9: on the start menu a click on button b in {1,2,3} starts the game
\* unpaused with difficulty b and rand_seed x + y and changes nothing else;
\* the click (300, 370) on the initial state selects button 1.
C9_StartClick ==
    [][ (e'.type = "mouse_click" /\ OnStartMenu(s)) =>
          /\ ButtonOf(e') \in {1, 2, 3} =>
                s' = [s EXCEPT !.meta_state.has_started = TRUE,
                               !.meta_state.is_paused = FALSE,
                               !.meta_state.difficulty = ButtonOf(e'),
                               !.meta_state.rand_seed = e'.x + e'.y]
          /\ (e'.x = 300 /\ e'.y = 370 /\ s = initialState) =>
                /\ s'.meta_state.has_started
                /\ s'.meta_state.difficulty = 1
                /\ s'.meta_state.rand_seed = 670 ]_vars

\* the click (300, 370) has started the game from the initial state
C9_Witness ==
    /\ e.type = "mouse_click" /\ e.x = 300 /\ e.y = 370
    /\ s = [initialState EXCEPT !.meta_state.has_started = TRUE,
                                !.meta_state.is_paused = FALSE,
                                !.meta_state.difficulty = 1,
                                !.meta_state.rand_seed = 670]

(***************************************************************************)
(* C10                                                                     *)
(***************************************************************************)
\* C10: a click that hits no button changes nothing on the start, pause and
\* end menus; a click while the game is running changes nothing; button 3 on
\* the pause menu and buttons 2 and 3 on the end menu change nothing.
C10_ClickNoOp ==
    [][ e'.type = "mouse_click" =>
          /\ ButtonOf(e') = 0 => s' = s
          /\ Running(s) => s' = s
          /\ (OnPauseMenu(s) /\ ButtonOf(e') = 3) => s' = s
          /\ (OnEndMenu(s) /\ ButtonOf(e') \in {2, 3}) => s' = s ]_vars

\* a click on button 2 has been processed on the end menu
C10_Witness ==
    /\ e.type = "mouse_click" /\ ButtonOf(e) = 2
    /\ OnEndMenu(s)

(***************************************************************************)
(* C11                                                                     *)
(***************************************************************************)
\* C11: a click on button 2 of the pause menu or on button 1 of the end menu
\* replaces the whole state by initialState: scores 0, not started, paused,
\* not ended, rand_seed 1, difficulty 3, no active power-up, no heuristic
\* ball, score_has_updated and power_up_activated false, paddles of speed 5
\* and size 1, player direction 0.
C11_Reset ==
    [][ ResetStep =>
          /\ s' = initialState
          /\ s'.player_score = 0 /\ s'.ai_score = 0
          /\ ~s'.meta_state.has_started /\ s'.meta_state.is_paused
          /\ ~s'.meta_state.has_ended
          /\ s'.meta_state.rand_seed = 1 /\ s'.meta_state.difficulty = 3
          /\ ~s'.meta_state.score_has_updated
          /\ ~s'.meta_state.power_up_activated
          /\ IsNull(s'.player_state.activated_power_up)
          /\ IsNull(s'.ai_paddle.activated_power_up)
          /\ IsNull(s'.ai_paddle.heuristic_ball)
          /\ s'.player_state.paddle.speed = 5 /\ s'.player_state.paddle.size = 1
          /\ s'.ai_paddle.paddle.speed = 5 /\ s'.ai_paddle.paddle.size = 1
          /\ s'.player_state.paddle.direction = 0 ]_vars

\* a click on button 1 has left the initial state: on the start menu button 1
\* starts the game and on the pause menu it unpauses, so this click was the
\* reset of the end menu
C11_Witness ==
    /\ e.type = "mouse_click" /\ ButtonOf(e) = 1
    /\ s = initialState

(***************************************************************************)
(* C12                                                                     *)
(***************************************************************************)
\* the simulation fields of a state
SimFields(st) ==
    [ball          |-> st.ball,
     power_up_ball |-> st.power_up_ball,
     player_y      |-> st.player_state.paddle.y,
     player_speed  |-> st.player_state.paddle.speed,
     player_size   |-> st.player_state.paddle.size,
     player_held   |-> st.player_state.power_up_holding,
     player_active |-> st.player_state.activated_power_up,
     ai_paddle     |-> st.ai_paddle,
     player_score  |-> st.player_score,
     ai_score      |-> st.ai_score,
     last_hit      |-> st.meta_state.last_hit]

\* C12: a movement event changes only the player paddle's direction, a
\* power-up-intent event only power_up_activated, a pause event at most
\* is_paused, a click that is no reset at most is_paused, has_started,
\* difficulty and rand_seed; none of them changes a simulation field, and
\* ai_paddle changes through no event but a Tick or a reset.
C12_EventFrame ==
    [][ /\ e'.type = "move_player_paddle" =>
              s' = [s EXCEPT !.player_state.paddle.direction = e'.direction]
        /\ e'.type = "use_power_up" =>
              s' = [s EXCEPT !.meta_state.power_up_activated = e'.activated]
        /\ e'.type = "pause" =>
              [s' EXCEPT !.meta_state.is_paused = s.meta_state.is_paused] = s
        /\ (e'.type = "mouse_click" /\ ~ResetStep) =>
              [s' EXCEPT !.meta_state.is_paused = s.meta_state.is_paused,
                         !.meta_state.has_started = s.meta_state.has_started,
                         !.meta_state.difficulty = s.meta_state.difficulty,
                         !.meta_state.rand_seed = s.meta_state.rand_seed] = s
        /\ (~TickStep /\ ~ResetStep) => SimFields(s') = SimFields(s) ]_vars

\* a movement event has been processed on a running game whose paddle is
\* away from its initial place
C12_Witness ==
    /\ e.type = "move_player_paddle" /\ e.direction = 1
    /\ Running(s)
    /\ s.player_state.paddle.direction = 1
    /\ s.player_state.paddle.y # initial_player_paddle_state.y

(***************************************************************************)
(* C13                                                                     *)
(***************************************************************************)
\* C13: the state after an event is reduceState of the state before and the
\* event, and for a Tick it is the same whatever Tick.elapsed is: a run is
\* fixed by its first state and its sequence of events.
C13_Deterministic ==
    [][ /\ s' = reduceState(s, e')
        /\ TickStep =>
              \A k \in {0, MaxTicks} :
                  reduceState(s, [type |-> "Tick", elapsed |-> k]) = s' ]_vars

\* the last of the Ticks has been processed on a running game, after the
\* pseudo-random draws of the ticks before it
C13_Witness ==
    /\ e.type = "Tick" /\ e.elapsed = MaxTicks - 1
    /\ Running(s)
    /\ s.meta_state.rand_seed = 988 + MaxTicks * MAX_RAND_NUM_GET

(***************************************************************************)
(* C14                                                                     *)
(***************************************************************************)
\* C14: a tick that starts with the AI's paddle within paddle.speed of its
\* target leaves the AI paddle's y unchanged.
C14_AiDeadZone ==
    [][ ( /\ UnpausedTickStep
          /\ Abs(s.ai_paddle.paddle.y - s.ai_paddle.y_target)
                <= px(s.ai_paddle.paddle.speed) )
        => s'.ai_paddle.paddle.y = s.ai_paddle.paddle.y ]_vars

\* ticks have been processed with the AI's paddle exactly paddle.speed away
\* from its target, and the paddle has stayed
C14_Witness ==
    /\ e.type = "Tick" /\ e.elapsed = MaxTicks - 1
    /\ Running(s)
    /\ s.ai_paddle.paddle.y = px(300)
    /\ s.ai_paddle.y_target = px(305)
    /\ s.ai_paddle.paddle.speed = 5

(***************************************************************************)
(* C15                                                                     *)
(***************************************************************************)
Sides == {CONTROLLED_PLAYER, AI}

\* the activated_power_up of side p as the decrement steps of a tick from st
\* leave it (entries 5 and 6 of tick_functions)
DecrementedIn(p, st) == activated_of(p, pipeFuncs(6, st))

\* C15 (as claimed): in an unpaused tick a non-null activated_power_up loses
\* exactly 1 of duration_left in the decrement step and becomes null in the
\* tick in which duration_left reaches 0, so no state after a tick holds a
\* non-null activated_power_up with duration_left = 0; a paused tick does not
\* count down.
C15_Countdown ==
    [][ TickStep =>
          \A p \in Sides :
              /\ (~s.meta_state.is_paused /\ ~IsNull(activated_of(p, s))) =>
                    DecrementedIn(p, s) =
                        IF Val(activated_of(p, s)).duration_left - 1 <= 0
                        THEN Null
                        ELSE Some(active_power_up(
                                 Val(activated_of(p, s)).power_up_t,
                                 Val(activated_of(p, s)).duration_left - 1))
              /\ ~IsNull(activated_of(p, s')) =>
                    Val(activated_of(p, s')).duration_left # 0
              /\ s.meta_state.is_paused =>
                    activated_of(p, s') = activated_of(p, s) ]_vars

(***************************************************************************)
(* C16                                                                     *)
(***************************************************************************)
\* the state a tick from st hands to the power-up effect step of side p, and
\* the state that step returns (entries 3 and 4 of tick_functions)
EffectIn(p, st) == IF p = CONTROLLED_PLAYER THEN pipeFuncs(2, st) ELSE pipeFuncs(3, st)

EffectOut(p, st) == IF p = CONTROLLED_PLAYER THEN pipeFuncs(3, st) ELSE pipeFuncs(4, st)

\* side p runs FastBall in st
RunsFastBall(p, st) ==
    /\ ~IsNull(activated_of(p, st))
    /\ Val(activated_of(p, st)).power_up_t = fast_ball

\* C16: FastBall is a one-shot impulse.  The effect step of a side running
\* FastBall multiplies the main ball's velocity magnitude by 4, angle kept,
\* when it sees duration_left = POWERUP_TIME, and leaves the velocity alone
\* at any other duration_left; the decrement of the same tick takes the
\* activation below POWERUP_TIME, so the impulse comes once per activation.
C16_FastBallOnce ==
    [][ UnpausedTickStep =>
          \A p \in Sides :
              RunsFastBall(p, s) =>
                  LET d   == Val(activated_of(p, s)).duration_left
                      vin  == EffectIn(p, s).ball.velocity
                      vout == EffectOut(p, s).ball.velocity
                  IN  /\ d = POWERUP_TIME =>
                            /\ vout.magnitude = 4 * vin.magnitude
                            /\ vout.angle = vin.angle
                            /\ DecrementedIn(p, s) =
                                   Some(active_power_up(fast_ball, POWERUP_TIME - 1))
                      /\ d # POWERUP_TIME => vout = vin ]_vars

\* two ticks into the AI's FastBall the ball flies at four times its
\* initial speed, not sixteen times
C16_Witness ==
    /\ e.type = "Tick" /\ e.elapsed = 1
    /\ RunsFastBall(AI, s)
    /\ Val(s.ai_paddle.activated_power_up).duration_left = POWERUP_TIME - 2
    /\ s.ball.velocity.magnitude = 4 * initial_ball_State.velocity.magnitude

(***************************************************************************)
(* C17                                                                     *)
(***************************************************************************)
\* the power_up_holding of a side
held_of(p, st) ==
    IF p = AI THEN st.ai_paddle.power_up_holding ELSE st.player_state.power_up_holding

\* the state a tick from st hands to the activation step of side p, and the
\* state that step returns for the state in handed to it (entries 15 and 16
\* of tick_functions)
ActivationIn(p, st) ==
    IF p = CONTROLLED_PLAYER THEN pipeFuncs(14, st) ELSE pipeFuncs(15, st)

ActivationOut(p, in) ==
    IF p = CONTROLLED_PLAYER THEN tick_functions(15, in) ELSE tick_functions(16, in)

\* the intent of side p in st: the player's key, the AI's own draw
IntentOf(p, st) ==
    IF p = AI
    THEN psudo_randm(st.meta_state.rand_seed + 50) < 2147484
    ELSE st.meta_state.power_up_activated

\* C17: a held power-up is converted only by the activation step of its
\* side, only when that side's intent is true and it holds a kind; the step
\* then leaves activated_power_up = (held kind, POWERUP_TIME) and
\* power_up_holding = none.  Otherwise the step changes neither field, the
\* steps before it leave the holding alone, and the player's step leaves the
\* AI's side alone.
C17_Activation ==
    [][ UnpausedTickStep =>
          \A p \in Sides :
              LET in  == ActivationIn(p, s)
                  out == ActivationOut(p, in)
              IN  /\ held_of(p, in) = held_of(p, s)
                  /\ (IntentOf(p, in) /\ held_of(p, in) # none) =>
                        /\ activated_of(p, out) =
                               Some(active_power_up(held_of(p, in), POWERUP_TIME))
                        /\ held_of(p, out) = none
                  /\ ~(IntentOf(p, in) /\ held_of(p, in) # none) =>
                        /\ activated_of(p, out) = activated_of(p, in)
                        /\ held_of(p, out) = held_of(p, in)
                  /\ p = CONTROLLED_PLAYER => out.ai_paddle = in.ai_paddle
                  /\ p = AI => out.player_state = in.player_state
                  /\ activated_of(p, s') = activated_of(p, out)
                  /\ held_of(p, out) # none => held_of(p, s') = held_of(p, out) ]_vars

\* the player's key has activated the FastBall held from the start, and the
\* AI has no power-up running
C17_Witness ==
    /\ e.type = "Tick"
    /\ s.meta_state.power_up_activated
    /\ s.player_state.activated_power_up = Some(active_power_up(fast_ball, POWERUP_TIME))
    /\ s.player_state.power_up_holding = none
    /\ IsNull(s.ai_paddle.activated_power_up)

(***************************************************************************)
(* C18                                                                     *)
(***************************************************************************)
\* the main ball is inside the box of the pickup, and the pickup is shown
OverlapsPickup(st) ==
    /\ st.power_up_ball.is_active
    /\ st.ball.x >= st.power_up_ball.x
    /\ st.ball.x <= st.power_up_ball.x + px(STARTING_PBALL_SIZE)
    /\ st.ball.y >= st.power_up_ball.y
    /\ st.ball.y <= st.power_up_ball.y + px(STARTING_PBALL_SIZE)

Kinds == {speed, fast_ball, return, expand}

OtherSide(p) == IF p = AI THEN CONTROLLED_PLAYER ELSE AI

\* C18: in the collection step of a tick, when the main ball overlaps the
\* shown pickup and the side of last_hit holds none, that side receives one
\* of the four kinds and the pickup is hidden, the other side's holding kept;
\* when that side holds a kind already, or there is no overlap, or the pickup
\* is hidden, the step changes nothing.
C18_Collection ==
    [][ UnpausedTickStep =>
          LET in   == pipeFuncs(17, s)
              out  == tick_functions(18, in)
              side == in.meta_state.last_hit
          IN  /\ side \in Sides
              /\ (OverlapsPickup(in) /\ held_of(side, in) = none) =>
                    /\ held_of(side, out) \in Kinds
                    /\ ~out.power_up_ball.is_active
                    /\ held_of(OtherSide(side), out) = held_of(OtherSide(side), in)
              /\ (OverlapsPickup(in) /\ held_of(side, in) # none) =>
                    /\ out = in
                    /\ out.power_up_ball.is_active
              /\ ~OverlapsPickup(in) => out = in
              /\ ~in.power_up_ball.is_active => out = in ]_vars

\* the player, last to hit the ball, has activated the FastBall held from the
\* start and has collected the pickup in the same tick, after a tick in
\* which the pickup was refused
C18_Witness ==
    /\ e.type = "Tick" /\ e.elapsed >= 1
    /\ s.meta_state.last_hit = CONTROLLED_PLAYER
    /\ ~s.power_up_ball.is_active
    /\ s.player_state.activated_power_up = Some(active_power_up(fast_ball, POWERUP_TIME))
    /\ s.player_state.power_up_holding \in Kinds

(***************************************************************************)
(* C20                                                                     *)
(***************************************************************************)
showStart(st) == st.meta_state.is_paused /\ ~st.meta_state.has_started

showPause(st) ==
    st.meta_state.is_paused /\ st.meta_state.has_started /\ ~st.meta_state.has_ended

showEnd(st) == st.meta_state.is_paused /\ st.meta_state.has_ended

\* how many of the three are true
Shown(st) ==
    (IF showStart(st) THEN 1 ELSE 0) + (IF showPause(st) THEN 1 ELSE 0)
        + (IF showEnd(st) THEN 1 ELSE 0)

\* C20: in every state at most one of showStart, showPause and showEnd is
\* true, and exactly one while is_paused; a game that has not started or has
\* ended is paused, and a game that has ended has started; display_all_menus,
\* which goes by the scores, shows the menu these flags select.
C20_MenuVisibility ==
    /\ Shown(s) <= 1
    /\ s.meta_state.is_paused => Shown(s) = 1
    /\ ~s.meta_state.has_started => s.meta_state.is_paused
    /\ s.meta_state.has_ended =>
          (s.meta_state.has_started /\ s.meta_state.is_paused)
    /\ display_all_menus(s) =
          [pauseMenu |-> showPause(s), startMenu |-> showStart(s),
           EndGameMenu |-> showEnd(s)]

\* a tick has ended the game and the end menu alone is shown
C20_Witness ==
    /\ e.type = "Tick"
    /\ display_all_menus(s) =
          [pauseMenu |-> FALSE, startMenu |-> FALSE, EndGameMenu |-> TRUE]
    /\ showEnd(s)

(***************************************************************************)
(* The methods of Vector on their own: a vector is drawn, and a method is  *)
(* applied to it; s holds the vector, the method, and what it returned     *)
(***************************************************************************)
\* magnitudes are drawn up to this many steps of 1.75 pixels per tick each way
MaxMagnitudeStep == 4

\* angles up to this many steps of a quarter radian each way
MaxAngleStep == 7

\* strengths up to this many steps of a quarter each way
MaxStrengthStep == 4

Magnitudes == { k * 175 : k \in -MaxMagnitudeStep..MaxMagnitudeStep }

Angles == { k * 25 : k \in -MaxAngleStep..MaxAngleStep }

Strengths == { k * 25 : k \in -MaxStrengthStep..MaxStrengthStep }

VectorInit ==
    /\ s \in { [v |-> Vector(m, a), method |-> "new", strength |-> 0,
                result |-> Vector(m, a)] : m \in Magnitudes, a \in Angles }
    /\ e = [type |-> "none"]
    /\ elapsed = 0

XReflect ==
    /\ s' = [s EXCEPT !.method = "x_reflect", !.strength = 0,
                      !.result = x_reflect(s.v)]
    /\ UNCHANGED <<e, elapsed>>

YReflect ==
    /\ s' = [s EXCEPT !.method = "y_reflect", !.strength = 0,
                      !.result = y_reflect(s.v)]
    /\ UNCHANGED <<e, elapsed>>

XReflectPaddle ==
    \E strength \in Strengths :
        /\ s' = [s EXCEPT !.method = "x_reflect_paddle", !.strength = strength,
                          !.result = x_reflect_paddle(s.v, strength)]
        /\ UNCHANGED <<e, elapsed>>

VectorNext == XReflect \/ YReflect \/ XReflectPaddle

SpecVector == VectorInit /\ [][VectorNext]_vars

(***************************************************************************)
(* C19                                                                     *)
(***************************************************************************)
\* C19 (as claimed): x_reflect and y_reflect return a vector of the same
\* magnitude, and x_reflect_paddle with a strength in [-1, 1] scales the
\* absolute magnitude by a factor in [0.9, 1.4].
C19_MagnitudeKept ==
    /\ s.method \in {"x_reflect", "y_reflect"} =>
          s.result.magnitude = s.v.magnitude
    /\ (s.method = "x_reflect_paddle" /\ Abs(s.strength) <= 100) =>
          /\ 100 * Abs(s.result.magnitude) <= 140 * Abs(s.v.magnitude)
          /\ 100 * (Abs(s.result.magnitude) + 1) > 90 * Abs(s.v.magnitude)

\* C19 (amended): y_reflect returns a vector of the same magnitude and
\* x_reflect one of the opposite magnitude, so both keep the absolute
\* magnitude and the angle is negated; x_reflect_paddle with a strength in
\* [-1, 1] scales the absolute magnitude by a factor in [0.9, 1.4] (to the
\* hundredth of a pixel per tick the vectors are kept at) and flips its sign.
C19_SpeedKept ==
    /\ s.method = "x_reflect" =>
          /\ s.result.magnitude = -s.v.magnitude
          /\ s.result.angle = -s.v.angle
    /\ s.method = "y_reflect" =>
          /\ s.result.magnitude = s.v.magnitude
          /\ s.result.angle = -s.v.angle
    /\ (s.method = "x_reflect_paddle" /\ Abs(s.strength) <= 100) =>
          /\ 100 * Abs(s.result.magnitude) <= 140 * Abs(s.v.magnitude)
          /\ 100 * (Abs(s.result.magnitude) + 1) > 90 * Abs(s.v.magnitude)
          /\ s.v.magnitude > 0 => s.result.magnitude < 0
          /\ s.v.magnitude < 0 => s.result.magnitude > 0

\* x_reflect has been applied to the velocity the ball starts with
C19_Witness ==
    /\ s.method = "x_reflect"
    /\ s.v = initial_ball_State.velocity
    /\ s.result.magnitude = -350

(***************************************************************************)
(* C21                                                                     *)
(***************************************************************************)
\* C21: after every tick the AI's target lies in the field of its paddle,
\* 0 <= y_target <= MAX_Y - 80 * size, also in the ticks in which an Expand
\* power-up changes the size.
C21_TargetClamped ==
    e.type = "Tick" =>
        /\ 0 <= s.ai_paddle.y_target
        /\ s.ai_paddle.y_target
              <= px(MAX_Y) - px(STARTING_PADDLE_SIZE) * s.ai_paddle.paddle.size

\* the AI's Expand has started with the paddle and its target at the low
\* edge of the field: the target has been taken back to MAX_Y - 160, the
\* paddle is still beyond it
C21_Witness ==
    /\ e.type = "Tick"
    /\ s.ai_paddle.paddle.size = 2
    /\ s.ai_paddle.y_target = px(MAX_Y) - 2 * px(STARTING_PADDLE_SIZE)
    /\ s.ai_paddle.paddle.y > s.ai_paddle.y_target

(***************************************************************************)
(* C22                                                                     *)
(***************************************************************************)
\* the AI paddle's distance to its target at the start of a tick from st is
\* within its speed
InDeadZone(st) ==
    Abs(st.ai_paddle.paddle.y - st.ai_paddle.y_target) <= px(st.ai_paddle.paddle.speed)

\* the AI paddle steps by its speed toward its target in the step from st to nx
StepsToward(st, nx) ==
    nx.ai_paddle.paddle.y =
        IF st.ai_paddle.paddle.y < st.ai_paddle.y_target
        THEN st.ai_paddle.paddle.y + px(st.ai_paddle.paddle.speed)
        ELSE st.ai_paddle.paddle.y - px(st.ai_paddle.paddle.speed)

\* C22 (as claimed): in a tick the AI paddle within speed of its target
\* moves onto the target, and otherwise steps by speed toward it.
C22_AiSnap ==
    [][ UnpausedTickStep =>
          IF InDeadZone(s)
          THEN s'.ai_paddle.paddle.y = s.ai_paddle.y_target
          ELSE StepsToward(s, s') ]_vars

\* C22 (amended): in a tick the AI paddle within speed of its target stays
\* where it is, up to speed away from the target, and otherwise steps by
\* speed toward it; it never passes the target.
C22_AiMove ==
    [][ UnpausedTickStep =>
          /\ IF InDeadZone(s)
             THEN s'.ai_paddle.paddle.y = s.ai_paddle.paddle.y
             ELSE StepsToward(s, s')
          /\ s.ai_paddle.paddle.y <= s.ai_paddle.y_target =>
                s'.ai_paddle.paddle.y <= s.ai_paddle.y_target
          /\ s.ai_paddle.paddle.y >= s.ai_paddle.y_target =>
                s'.ai_paddle.paddle.y >= s.ai_paddle.y_target ]_vars

\* a first tick has left the AI paddle at 300, its speed away from the
\* target at 305
C22_Witness ==
    /\ e.type = "Tick" /\ e.elapsed = 0
    /\ s.ai_paddle.paddle.y = px(300)
    /\ s.ai_paddle.y_target = px(305)
    /\ InDeadZone(s)

(***************************************************************************)
(* C23                                                                     *)
(***************************************************************************)
\* the state in which the main ball's step of a tick from st takes place
BallStepIn(st) == pipeFuncs(9, st)

\* the main ball of st is within one radius of a vertical wall
AtVerticalWall(st) ==
    \/ st.ball.x <= st.ball.size * px(STARTING_BALL_SIZE)
    \/ st.ball.x >= px(MAX_X) - st.ball.size * px(STARTING_BALL_SIZE)

\* the main ball of st is within one radius of a horizontal wall
AtHorizontalWall(st) ==
    \/ st.ball.y <= st.ball.size * px(STARTING_BALL_SIZE)
    \/ st.ball.y >= px(MAX_Y) - st.ball.size * px(STARTING_BALL_SIZE)

\* the main ball of st is respawned by its step and not moved
Respawns(st) == st.ball.x >= px(MAX_X) - px(30) \/ st.ball.x <= px(30)

\* the dispatch of the main ball's new velocity as claimed: the AI's paddle,
\* then the player's paddle, then a vertical wall, then a horizontal wall
ClaimedDispatch(st) ==
    IF ball_collide_with_paddle(AI, st)
    THEN x_reflect_paddle(st.ball.velocity, get_paddle_contact_strength(AI, st))
    ELSE IF ball_collide_with_paddle(CONTROLLED_PLAYER, st)
         THEN x_reflect_paddle(st.ball.velocity,
                               get_paddle_contact_strength(CONTROLLED_PLAYER, st))
         ELSE IF AtVerticalWall(st)
              THEN x_reflect(st.ball.velocity)
              ELSE IF AtHorizontalWall(st)
                   THEN y_reflect(st.ball.velocity)
                   ELSE st.ball.velocity

\* C23: in a tick that moves the main ball, its new velocity is the paddle
\* reflection with the AI's contact strength on contact with the AI's paddle,
\* else the paddle reflection with the player's contact strength on contact
\* with the player's paddle, else the plain horizontal reflection within one
\* radius of a vertical wall, else the vertical reflection within one radius
\* of a horizontal wall, else the old velocity.
C23_Dispatch ==
    [][ UnpausedTickStep /\ ~Respawns(BallStepIn(s)) =>
          s'.ball.velocity = ClaimedDispatch(BallStepIn(s)) ]_vars

(***************************************************************************)
(* C24                                                                     *)
(***************************************************************************)
\* C24: whenever the main ball is in contact with a paddle in its step of a
\* tick, the contact strength of that paddle lies in [-1, 1].
C24_StrengthBounded ==
    [][ UnpausedTickStep =>
          \A p \in Sides :
             ball_collide_with_paddle(p, BallStepIn(s)) =>
                Abs(get_paddle_contact_strength(p, BallStepIn(s))) <= 100 ]_vars

(***************************************************************************)
(* C25                                                                     *)
(***************************************************************************)
\* the length of one step of the pickup of st
PickupStep(st) == Abs(st.power_up_ball.velocity.magnitude)

\* C25: the pickup stays in the box 100 <= x, y <= 400, up to one step of its
\* velocity.
C25_PickupInBox ==
    /\ px(100) - PickupStep(s) <= s.power_up_ball.x
    /\ s.power_up_ball.x <= px(400) + PickupStep(s)
    /\ px(100) - PickupStep(s) <= s.power_up_ball.y
    /\ s.power_up_ball.y <= px(400) + PickupStep(s)

(***************************************************************************)
(* C26                                                                     *)
(***************************************************************************)
\* the paddle of side p in st
PaddleOf(p, st) == IF p = AI THEN st.ai_paddle.paddle ELSE st.player_state.paddle

\* side p has a running power-up of kind k in st
Runs(k, p, st) ==
    /\ ~IsNull(activated_of(p, st))
    /\ Val(activated_of(p, st)).power_up_t = k

C27_ReturnOnce ==
    [][ UnpausedTickStep =>
          \A p \in Sides :
              Runs(return, p, s) =>
                  LET d    == Val(activated_of(p, s)).duration_left
                      vin  == EffectIn(p, s).ball.velocity
                      vout == EffectOut(p, s).ball.velocity
                  IN  /\ d = POWERUP_TIME =>
                            /\ vout = x_reflect(vin)
                            /\ DecrementedIn(p, s) =
                                   Some(active_power_up(return, POWERUP_TIME - 1))
                      /\ d # POWERUP_TIME => vout = vin ]_vars

\* the player's Return has run for two ticks and the ball, in mid-field,
\* flies with the opening velocity reflected once
C27_Witness ==
    /\ e.type = "Tick"
    /\ s.player_state.activated_power_up = Some(active_power_up(return, POWERUP_TIME - 2))
    /\ s.ball.velocity = x_reflect(initial_ball_State.velocity)
    /\ s.ball.x > px(100) /\ s.ball.x < px(500)

(***************************************************************************)
(* C28                                                                     *)
(***************************************************************************)
\* C28: a running power-up of a side changes only by counting down by one
\* and by becoming null; no step puts another activation in its place.
C28_NoReplacement ==
    [][ \A p \in Sides :
          ~IsNull(activated_of(p, s)) =>
              \/ activated_of(p, s') = activated_of(p, s)
              \/ activated_of(p, s') = active_power_up_tick_method(Val(activated_of(p, s)))
              \/ IsNull(activated_of(p, s')) ]_vars

(***************************************************************************)
(* C29                                                                     *)
(***************************************************************************)
\* the step is a click that hits a button of the start menu
StartHit == e'.type = "mouse_click" /\ OnStartMenu(s) /\ ButtonOf(e') # 0

\* C29: every unpaused tick adds MAX_RAND_NUM_GET = 111 to rand_seed (the
\* remainder modulo 100000000000 of the sum, for the seeds below
\* 100000000000 - 111), whatever it drew; the twelve steps before the seed
\* step and the six after it leave rand_seed alone; and a step that changes
\* rand_seed is an unpaused tick, a button hit on the start menu or a reset.
C29_SeedStride ==
    [][ /\ UnpausedTickStep =>
              /\ s'.meta_state.rand_seed = s.meta_state.rand_seed + MAX_RAND_NUM_GET
              /\ pipeFuncs(12, s).meta_state.rand_seed = s.meta_state.rand_seed
              /\ pipeFuncs(13, s).meta_state.rand_seed = s'.meta_state.rand_seed
        /\ s'.meta_state.rand_seed # s.meta_state.rand_seed =>
              UnpausedTickStep \/ StartHit \/ ResetStep ]_vars

\* the game has been started by a click at (300, 370), which seeds it with
\* 670, and has run one tick
C29_Witness ==
    /\ e.type = "Tick" /\ e.elapsed = 0
    /\ Running(s)
    /\ s.meta_state.rand_seed = 670 + MAX_RAND_NUM_GET

(***************************************************************************)
(* C30                                                                     *)
(***************************************************************************)
\* v held to the field of the AI's paddle of st
ClampTarget(st, v) ==
    Max(Min(v, px(MAX_Y) - px(STARTING_PADDLE_SIZE) * st.ai_paddle.paddle.size), 0)

\* the state in which the target step of a tick from st takes place
TargetIn(st) == pipeFuncs(6, st)

\* the state in which the creation step of a tick from st takes place
CreateIn(st) == pipeFuncs(8, st)

\* the heuristic ball appears in this step only if the step is a tick in
\* which the main ball is in contact with the player's paddle
SpawnOnContact ==
    IsNull(s.ai_paddle.heuristic_ball) /\ ~IsNull(s'.ai_paddle.heuristic_ball) =>
        /\ UnpausedTickStep
        /\ ball_collide_with_paddle(CONTROLLED_PLAYER, CreateIn(s))

\* this step takes a heuristic ball away
Removal == ~IsNull(s.ai_paddle.heuristic_ball) /\ IsNull(s'.ai_paddle.heuristic_ball)

\* this step is a tick that starts with a heuristic ball beyond the AI's line
TickPastLine ==
    /\ UnpausedTickStep
    /\ Val(s.ai_paddle.heuristic_ball).x < px(40)

\* the AI's target after a tick: recomputed from a heuristic ball with
\* x < 40, which the same tick takes away unless the player's paddle makes a
\* new one; kept, apart from the clamp, while a heuristic ball has x >= 40,
\* and that ball stays; without a heuristic ball re-rolled if the main ball
\* has x < 40 and kept, apart from the clamp, otherwise
TargetInTick ==
    UnpausedTickStep =>
        LET in == TargetIn(s)
            h  == s.ai_paddle.heuristic_ball
        IN  IF ~IsNull(h)
            THEN IF Val(h).x < px(40)
                 THEN /\ s'.ai_paddle.y_target =
                            ClampTarget(in, Val(h).y - px(40) + prediction_deviation(in))
                      /\ \/ IsNull(s'.ai_paddle.heuristic_ball)
                         \/ ball_collide_with_paddle(CONTROLLED_PLAYER, CreateIn(s))
                 ELSE /\ s'.ai_paddle.y_target = ClampTarget(in, s.ai_paddle.y_target)
                      /\ ~IsNull(s'.ai_paddle.heuristic_ball)
            ELSE IF s.ball.x < px(40)
                 THEN s'.ai_paddle.y_target =
                          ClampTarget(in, randn_bm(s.meta_state.rand_seed + 3,
                                                   px(250), px(300)))
                 ELSE s'.ai_paddle.y_target = ClampTarget(in, s.ai_paddle.y_target)

\* C30 (as claimed): the heuristic ball appears only in a tick with the main
\* ball in contact with the player's paddle; it disappears only in a tick
\* that finds its x < 40; and the AI's target is recomputed from it in that
\* tick and in no other, and re-rolled without it only when the main ball's
\* x is < 40.
C30_LifecycleTicksOnly ==
    [][ /\ SpawnOnContact
        /\ Removal => TickPastLine
        /\ TargetInTick ]_vars

\* C30 (amended): the same, but the heuristic ball disappears in a tick that
\* finds its x < 40 or in a reset of the game.
C30_Lifecycle ==
    [][ /\ SpawnOnContact
        /\ Removal => TickPastLine \/ ResetStep
        /\ TargetInTick ]_vars

\* a first tick has found a heuristic ball at x = 39, has taken it away and
\* has moved the AI's target from 300, with the main ball in mid-field
C30_Witness ==
    /\ e.type = "Tick" /\ e.elapsed = 0
    /\ IsNull(s.ai_paddle.heuristic_ball)
    /\ s.meta_state.rand_seed = 988 + MAX_RAND_NUM_GET
    /\ s.ball.x > px(100)
    /\ s.ai_paddle.y_target # px(300)

(***************************************************************************)
(* C31                                                                     *)
(***************************************************************************)
\* the state in which the heuristic ball's step of a tick from st takes place
HeuristicStepIn(st) == pipeFuncs(7, st)

\* the reflection rule of the main ball applied to the heuristic ball's own
\* position and velocity, as the earlier reducer selects them
OwnVelocity(st) ==
    LET h         == Val(st.ai_paddle.heuristic_ball)
        ball_size == h.size * px(STARTING_BALL_SIZE)
    IN  IF \/ h.x <= ball_size
           \/ h.x >= px(MAX_X) - ball_size
           \/ check_collision_with_both_paddle(st)
        THEN IF ball_collide_with_paddle(AI, st)
             THEN x_reflect_paddle(h.velocity, get_paddle_contact_strength(AI, st))
             ELSE IF ball_collide_with_paddle(CONTROLLED_PLAYER, st)
                  THEN x_reflect_paddle(h.velocity,
                                        get_paddle_contact_strength(CONTROLLED_PLAYER, st))
                  ELSE x_reflect(h.velocity)
        ELSE IF h.y <= ball_size \/ h.y >= px(MAX_Y) - ball_size
             THEN y_reflect(h.velocity)
             ELSE h.velocity

\* C31: in a tick that finds a heuristic ball with x >= 40, its new velocity
\* is the main ball's reflection rule applied to its own position and
\* velocity and its new position is its own plus twice that velocity's
\* (dx, dy).
C31_HeuristicOwnMotion ==
    [][ /\ UnpausedTickStep
        /\ ~IsNull(s.ai_paddle.heuristic_ball)
        /\ Val(s.ai_paddle.heuristic_ball).x >= px(40)
        => LET in == HeuristicStepIn(s)
               h  == Val(s.ai_paddle.heuristic_ball)
               v  == OwnVelocity(in)
           IN  s'.ai_paddle.heuristic_ball =
                   Some([h EXCEPT !.x = h.x + v.dx * 2,
                                  !.y = h.y + v.dy * 2,
                                  !.velocity = v]) ]_vars

(***************************************************************************)
(* C32                                                                     *)
(***************************************************************************)
\* the main ball of st, repositioned at random with the opening speed
Repositioned(st) ==
    [st.ball EXCEPT
        !.x = randn_bm(st.meta_state.rand_seed + 10, px(50), px(200)),
        !.y = randn_bm(st.meta_state.rand_seed + 11, px(50), px(200)),
        !.velocity = Vector(initial_ball_State.velocity.magnitude,
                            psudo_randm(st.meta_state.rand_seed + 13) \div 21474836)]

\* the main ball of st, advanced by its new velocity
Advanced(st) ==
    [st.ball EXCEPT
        !.x = st.ball.x + new_ball_velocity(st, main_ball).dx,
        !.y = st.ball.y + new_ball_velocity(st, main_ball).dy,
        !.velocity = new_ball_velocity(st, main_ball)]

\* C32: the main ball's step of a tick repositions the ball if and only if
\* the ball is past a goal line (x <= 30 or x >= MAX_X - 30) at the start of
\* the step and in contact with no paddle; a ball past the line and in
\* contact with a paddle is advanced and reflected.
C32_RespawnCondition ==
    [][ UnpausedTickStep =>
          LET in == BallStepIn(s)
          IN  s'.ball = IF Respawns(in) /\ ~check_collision_with_both_paddle(in)
                        THEN Repositioned(in)
                        ELSE Advanced(in) ]_vars

(***************************************************************************)
(* C33                                                                     *)
(***************************************************************************)
\* the side that the last-hit step records in st, given the side recorded
\* before: the AI first, then the player, else the side recorded before
HitIn(st, before) ==
    IF ball_collide_with_paddle(AI, st) THEN AI
    ELSE IF ball_collide_with_paddle(CONTROLLED_PLAYER, st) THEN CONTROLLED_PLAYER
    ELSE before

\* C33: in a tick the last-hit step and the collection step see the main ball
\* where the ball's step of the same tick has put it: last_hit after the tick
\* is the AI if the moved ball is in contact with the AI's paddle, else the
\* player if it is in contact with the player's, else as before; the
\* collection step tests the moved ball against the pickup and gives the
\* pickup to the side just recorded.
C33_PostMove ==
    [][ UnpausedTickStep =>
          LET moved == tick_functions(10, BallStepIn(s))
              in    == pipeFuncs(17, s)
              out   == tick_functions(18, in)
          IN  /\ s'.ball = moved.ball
              /\ in.ball = moved.ball
              /\ s'.meta_state.last_hit = HitIn(s', s.meta_state.last_hit)
              /\ in.meta_state.last_hit = s'.meta_state.last_hit
              /\ \A p \in Sides :
                    held_of(p, out) # held_of(p, in) =>
                        /\ p = s'.meta_state.last_hit
                        /\ OverlapsPickup([in EXCEPT !.ball = s'.ball]) ]_vars

\* a first tick has moved the main ball from x = 558 into contact with the
\* player's paddle and has recorded the player as the last to hit
C33_Witness ==
    /\ e.type = "Tick" /\ e.elapsed = 0
    /\ s.ball.x = px(558) + initial_ball_State.velocity.dx
    /\ ball_collide_with_paddle(CONTROLLED_PLAYER, s)
    /\ s.meta_state.last_hit = CONTROLLED_PLAYER

(***************************************************************************)
(* C34                                                                     *)
(***************************************************************************)
\* C34: a side without a running power-up has the paddle speed 5 and the
\* paddle size 1.
C34_BaselineIdle ==
    \A p \in Sides :
        IsNull(activated_of(p, s)) =>
            /\ PaddleOf(p, s).speed = 5
            /\ PaddleOf(p, s).size = 1

(***************************************************************************)
(* C35                                                                     *)
(***************************************************************************)
\* C35: whenever the main ball's step of a tick takes its respawn branch,
\* score_has_updated is true in the state it is applied to.
C35_RespawnAfterPoint ==
    [][ UnpausedTickStep /\ Respawns(BallStepIn(s)) =>
            BallStepIn(s).meta_state.score_has_updated ]_vars

C36_HitSendsAway ==
    [][ UnpausedTickStep /\ ~Respawns(BallStepIn(s)) =>
          /\ ball_collide_with_paddle(AI, BallStepIn(s)) => s'.ball.velocity.dx > 0
          /\ ball_collide_with_paddle(CONTROLLED_PLAYER, BallStepIn(s)) =>
                s'.ball.velocity.dx < 0 ]_vars

(***************************************************************************)
(* C39                                                                     *)
(***************************************************************************)
\* st after k Tick events
RECURSIVE TicksFrom(_, _)
TicksFrom(k, st) ==
    IF k = 0 THEN st
    ELSE reduceState(TicksFrom(k - 1, st), [type |-> "Tick", elapsed |-> k - 1])

\* C39: from a running game, a pause event, any number of Tick events and
\* then a second pause event or a click on button 1 of the pause menu give
\* back the state before the first pause event; the Tick events in between
\* change nothing.
C39_PauseRoundTrip ==
    Running(s) =>
        \A k \in 0 .. MaxTicks :
            LET paused == reduceState(s, [type |-> "pause"])
                ticked == TicksFrom(k, paused)
            IN  /\ paused.meta_state.is_paused
                /\ ticked = paused
                /\ reduceState(ticked, [type |-> "pause"]) = s
                /\ reduceState(ticked, [type |-> "mouse_click", x |-> 300, y |-> 370]) = s

\* a second pause event has set a game going again in which play has gone on
\* for a tick and the player's paddle is on its way
C39_Witness ==
    /\ e.type = "pause"
    /\ Running(s)
    /\ elapsed >= 2
    /\ s.player_state.paddle.direction # 0
    /\ s.ball # initial_ball_State

====
